---- MODULE Spec2Model ----
(***************************************************************************)
(* State-machine model of the impostor-game server (src/ImposterGame/app.js)*)
(* One action per socket event handler or timer callback.  Handlers are    *)
(* written as operators on a record G = [rooms, ps, socks, out] so that    *)
(* the helper functions of app.js (setPhase, tallyVotes, checkWinConditions,*)
(* endGameAfterGuess, resetRoomForPlayAgain ...) compose as in the source. *)
(* G.out lists the notifications the handler emits that tell a client of   *)
(* a phase, a winner, a vote result, a role, a snapshot or a refusal (the  *)
(* playerList, modeChanged and similar refreshes are left out); the        *)
(* variables hold the server's memory: the room table, the                 *)
(* identity-to-connection table and the connections.                       *)
(***************************************************************************)
EXTENDS Integers, Sequences, FiniteSets, TLC

VARIABLES rooms, playerSockets, socks, now

vars == <<rooms, playerSockets, socks, now>>

----------------------------------------------------------------------------
(* Bounds of the model *)

\* number of client-persisted identities (playerId values) in play
NumIds == 5
\* number of connections that ever exist besides the ones Init already binds
NumSpare == 1
\* the limits app.js reads from the environment (MAX_ROOMS,
\* MAX_PLAYERS_PER_ROOM, ROOM_TIMEOUT_MINUTES), configured small
MAX_ROOMS == 2
MAX_PLAYERS_PER_ROOM == 4
ROOM_INACTIVE_TIMEOUT == 1
\* the clock stops here
MaxTime == 3
\* the draws generateCode makes before it gives up (1000 in app.js)
MaxAttempts == 2

(* Program constants *)

MIN_CUSTOM_WORDS == 5
MAX_WORD_LENGTH == 30
MIN_IMPOSTORS == 1
MAX_IMPOSTORS == 3

----------------------------------------------------------------------------
(* Values *)

Ids == 1..NumIds
NoId == 0
Sockets == 1..(NumIds + NumSpare)
NoSock == 0

\* strings are sequences of characters
AAAA == <<"A", "A", "A", "A">>
BBBB == <<"B", "B", "B", "B">>
CCCC == <<"C", "C", "C", "C">>
NoCode == <<>>
\* the codes the random draws of generateCode produce in this model
CodePool == {AAAA, BBBB, CCCC}

NoRoom == [phase |-> "none"]
NoWord == <<>>
NoCategory == "none"

Dog == <<"D", "o", "g">>
Cat == <<"C", "a", "t">>
categories == [Animals |-> <<Dog, Cat>>]
CategoryNames == DOMAIN categories

UpperChars == <<"A", "B", "C", "D", "G", "O", "T">>
LowerChars == <<"a", "b", "c", "d", "g", "o", "t">>

toLowerChar(c) ==
    IF \E i \in DOMAIN UpperChars : UpperChars[i] = c
    THEN LowerChars[CHOOSE i \in DOMAIN UpperChars : UpperChars[i] = c]
    ELSE c

toUpperChar(c) ==
    IF \E i \in DOMAIN LowerChars : LowerChars[i] = c
    THEN UpperChars[CHOOSE i \in DOMAIN LowerChars : LowerChars[i] = c]
    ELSE c

toLowerCase(str) == [i \in DOMAIN str |-> toLowerChar(str[i])]
toUpperCase(str) == [i \in DOMAIN str |-> toUpperChar(str[i])]

RECURSIVE trimStart(_)
trimStart(str) ==
    IF str # <<>> /\ Head(str) = " " THEN trimStart(Tail(str)) ELSE str

RECURSIVE trimEnd(_)
trimEnd(str) ==
    IF str # <<>> /\ str[Len(str)] = " "
    THEN trimEnd(SubSeq(str, 1, Len(str) - 1))
    ELSE str

trim(str) == trimEnd(trimStart(str))

isUpperLetter(c) == \E i \in DOMAIN UpperChars : UpperChars[i] = c

\* /^[A-Z]{4}$/ on code.toUpperCase()
isValidRoomCode(code) ==
    /\ code # NoCode
    /\ Len(code) = 4
    /\ \A i \in 1..4 : isUpperLetter(toUpperChar(code[i]))

----------------------------------------------------------------------------
(* Sequences of players *)

IdsOf(players) == {players[i].id : i \in DOMAIN players}

\* index of the first player with this id, 0 when there is none
findIndex(players, pid) ==
    IF \E i \in DOMAIN players : players[i].id = pid
    THEN CHOOSE i \in DOMAIN players :
            /\ players[i].id = pid
            /\ \A j \in DOMAIN players : players[j].id = pid => i <= j
    ELSE 0

findPlayerInRoom(room, pid) == findIndex(room.players, pid)

removeId(players, pid) == SelectSeq(players, LAMBDA p : p.id # pid)

alivePlayersOf(room) == SelectSeq(room.players, LAMBDA p : ~p.eliminated)

aliveWithRole(room, role) ==
    SelectSeq(room.players, LAMBDA p : ~p.eliminated /\ room.roles[p.id] = role)

noRoles == [p \in Ids |-> "none"]
noVotes == [p \in Ids |-> NoId]

voteKeys(votes) == {v \in Ids : votes[v] # NoId}

\* all orders of a finite set of player records
Perms(players) ==
    {f \in [DOMAIN players -> DOMAIN players] :
        \A i, j \in DOMAIN players : f[i] = f[j] => i = j}

\* the draws j = Math.floor(Math.random() * (i + 1)) of one shuffle, counted
\* from 1: the draw at place i is one of the places up to i
Draws(n) == {d \in [1..n -> 1..n] : \A i \in 1..n : d[i] <= i}

\* the loop of shuffleArray from place i down: swap arr[i] and arr[j]
RECURSIVE shuffleFrom(_, _, _)
shuffleFrom(arr, draws, i) ==
    IF i <= 1 THEN arr
    ELSE shuffleFrom([arr EXCEPT ![i] = arr[draws[i]], ![draws[i]] = arr[i]],
                     draws, i - 1)

\* a shuffle that copies the drawn element instead of swapping
shuffleArrayCopying(array, draws) == [i \in DOMAIN array |-> array[draws[i]]]

shuffleArray(array, draws) == shuffleFrom(array, draws, Len(array))

----------------------------------------------------------------------------
(* Emission and small helpers on G = [rooms, ps, socks, out] *)

\* io.sockets.sockets.get(id): only a connected socket is found
isLive(G, s) == s # NoSock /\ G.socks[s].st \in {"open", "closing"}

Emit(G, m) == [G EXCEPT !.out = Append(@, m)]

\* socket.emit; a packet for a socket that is gone is dropped
EmitTo(G, s, m) == IF isLive(G, s) THEN Emit(G, [m EXCEPT !.to = s]) ELSE G

\* playerSockets[pid] -> io.sockets.sockets.get(...) -> emit, when both exist
EmitToPlayer(G, pid, m) ==
    IF G.ps[pid] # NoSock /\ isLive(G, G.ps[pid])
    THEN EmitTo(G, G.ps[pid], m)
    ELSE G

touchRoom(G, code) ==
    IF G.rooms[code] # NoRoom
    THEN [G EXCEPT !.rooms[code].lastActivity = now]
    ELSE G

setPhase(G, code, newPhase) ==
    IF G.rooms[code] = NoRoom THEN G
    ELSE LET G1 == [G EXCEPT !.rooms[code].phase = newPhase]
             G2 == touchRoom(G1, code)
         IN  Emit(G2, [type |-> "phaseChanged", to |-> NoSock, room |-> code,
                       phase |-> newPhase])

gameEnded(code, winner) ==
    [type |-> "gameEnded", to |-> NoSock, room |-> code, winner |-> winner]

----------------------------------------------------------------------------
(* Helper functions of app.js *)

roomAt(G, code) == IF code \in CodePool THEN G.rooms[code] ELSE NoRoom

\* rooms[code] = { ... } of createSession
newRoom(pid) ==
    [phase |-> "lobby", hostId |-> pid, started |-> FALSE, mode |-> "preset",
     impostorCount |-> 1,
     players |-> <<[id |-> pid, isHost |-> TRUE, eliminated |-> FALSE]>>,
     roles |-> noRoles, selectedCategory |-> NoCategory, customWords |-> <<>>,
     secretWord |-> NoWord, votes |-> noVotes,
     pendingImpostorGuess |-> FALSE, eliminatedImpostorId |-> NoId,
     guessTimeout |-> "null", hasTurnOrder |-> FALSE, turnOrder |-> <<>>,
     lastActivity |-> now]

getRoomCount(G) == Cardinality({c \in CodePool : G.rooms[c] # NoRoom})

\* the clearing that leaves the timer running
clearGuessTimeoutNot(G, code) == G

\* the timer handle stays in room.guessTimeout after it fired, until it is cleared
clearGuessTimeout(G, code) ==
    IF G.rooms[code].guessTimeout # "null"
    THEN [G EXCEPT !.rooms[code].guessTimeout = "null"]
    ELSE G

\* the resolution that leaves the pending flag set
endGameAfterGuessKeepsFlag(G, code, guessCorrect) ==
    IF roomAt(G, code) = NoRoom THEN G
    ELSE LET G1 == clearGuessTimeout(G, code)
             G2 == [G1 EXCEPT !.rooms[code].eliminatedImpostorId = NoId]
             G3 == setPhase(G2, code, "ended")
         IN  IF guessCorrect
             THEN Emit(G3, gameEnded(code, "impostor"))
             ELSE Emit(G3, gameEnded(code, "crew"))

endGameAfterGuess(G, code, guessCorrect) ==
    IF roomAt(G, code) = NoRoom THEN G
    ELSE LET G1 == clearGuessTimeout(G, code)
             G2 == [G1 EXCEPT !.rooms[code].pendingImpostorGuess = FALSE,
                              !.rooms[code].eliminatedImpostorId = NoId]
             G3 == setPhase(G2, code, "ended")
         IN  IF guessCorrect
             THEN Emit(G3, gameEnded(code, "impostor"))
             ELSE Emit(G3, gameEnded(code, "crew"))

\* the win test with the impostors needing a majority
checkWinConditionsStrict(G, code) ==
    IF roomAt(G, code) = NoRoom THEN G
    ELSE IF G.rooms[code].pendingImpostorGuess THEN G
    ELSE LET room == G.rooms[code]
             aliveImpostors == aliveWithRole(room, "impostor")
             aliveCrew == aliveWithRole(room, "crew")
         IN  IF Len(aliveImpostors) = 0
             THEN Emit(setPhase(G, code, "ended"), gameEnded(code, "crew"))
             ELSE IF Len(aliveImpostors) > Len(aliveCrew)
             THEN Emit(setPhase(G, code, "ended"), gameEnded(code, "impostor"))
             ELSE G

checkWinConditions(G, code) ==
    IF roomAt(G, code) = NoRoom THEN G
    ELSE IF G.rooms[code].pendingImpostorGuess THEN G
    ELSE LET room == G.rooms[code]
             aliveImpostors == aliveWithRole(room, "impostor")
             aliveCrew == aliveWithRole(room, "crew")
         IN  IF Len(aliveImpostors) = 0
             THEN Emit(setPhase(G, code, "ended"), gameEnded(code, "crew"))
             ELSE IF Len(aliveImpostors) >= Len(aliveCrew)
             THEN Emit(setPhase(G, code, "ended"), gameEnded(code, "impostor"))
             ELSE G

\* voteCounts: one counter per non-eliminated player; a ballot for anybody
\* else finds voteCounts[votedId] undefined and is skipped
voteCountsOf(room) ==
    [p \in IdsOf(alivePlayersOf(room)) |->
        Cardinality({v \in Ids : room.votes[v] = p})]

\* the forEach over Object.entries(voteCounts), in the order of alivePlayers
RECURSIVE tallyScan(_, _, _, _, _)
tallyScan(alive, counts, i, maxVotes, eliminated) ==
    IF i > Len(alive)
    THEN [maxVotes |-> maxVotes, eliminated |-> eliminated]
    ELSE LET count == counts[alive[i].id] IN
         IF count > maxVotes
         THEN tallyScan(alive, counts, i + 1, count, <<alive[i].id>>)
         ELSE IF count = maxVotes /\ count > 0
         THEN tallyScan(alive, counts, i + 1, maxVotes,
                        Append(eliminated, alive[i].id))
         ELSE tallyScan(alive, counts, i + 1, maxVotes, eliminated)

\* the elimination test with a tie taken for a hit
tallyHitOnTie(scan) == Len(scan.eliminated) >= 1 /\ scan.maxVotes > 0

\* the elimination test of tallyVotes
tallyHit(scan) == Len(scan.eliminated) = 1 /\ scan.maxVotes > 0

\* room.players.forEach: impostorGuessing to everybody but the guesser
RECURSIVE notifyGuessing(_, _, _, _)
notifyGuessing(G, code, guesser, i) ==
    IF i > Len(G.rooms[code].players) THEN G
    ELSE LET pid == G.rooms[code].players[i].id
             G1 == IF pid # guesser
                   THEN EmitToPlayer(G, pid, [type |-> "impostorGuessing",
                                              to |-> NoSock, room |-> code])
                   ELSE G
         IN  notifyGuessing(G1, code, guesser, i + 1)

\* the branch taken for every impostor voted out
lastImpostorOutAny(room, elimId, elimRole) ==
    /\ elimId # NoId
    /\ elimRole = "impostor"

\* the branch of tallyVotes that opens the last-chance guess
lastImpostorOut(room, elimId, elimRole) ==
    /\ elimId # NoId
    /\ elimRole = "impostor"
    /\ Len(aliveWithRole(room, "impostor")) = 0

tallyVotes(G, code) ==
    IF roomAt(G, code) = NoRoom THEN G
    ELSE LET room == G.rooms[code]
             alive == alivePlayersOf(room)
             counts == voteCountsOf(room)
             scan == tallyScan(alive, counts, 1, 0, <<>>)
             pidx == IF tallyHit(scan)
                     THEN findIndex(room.players, scan.eliminated[1])
                     ELSE 0
             elimId == IF pidx > 0 THEN room.players[pidx].id ELSE NoId
             elimRole == IF pidx > 0 THEN room.roles[elimId] ELSE "none"
             G1 == IF pidx > 0
                   THEN [G EXCEPT !.rooms[code].players[pidx].eliminated = TRUE]
                   ELSE G
             G2 == Emit(G1, [type |-> "voteResults", to |-> NoSock, room |-> code,
                             votes |-> counts, eliminated |-> elimId,
                             role |-> elimRole,
                             tie |-> Len(scan.eliminated) > 1,
                             noVotes |-> scan.maxVotes = 0])
             G3 == setPhase(G2, code, "results")
         IN  IF lastImpostorOut(G3.rooms[code], elimId, elimRole)
             THEN LET G4 == [G3 EXCEPT
                               !.rooms[code].pendingImpostorGuess = TRUE,
                               !.rooms[code].eliminatedImpostorId = elimId]
                      G5 == EmitToPlayer(G4, elimId,
                               [type |-> "impostorGuessPrompt", to |-> NoSock,
                                room |-> code])
                      G6 == notifyGuessing(G5, code, elimId, 1)
                  IN  [G6 EXCEPT !.rooms[code].guessTimeout = "armed"]
             ELSE checkWinConditions(G3, code)

\* the reset without the loop over the players
resetRoomKeepingFlags(G, code) ==
    IF roomAt(G, code) = NoRoom THEN G
    ELSE LET G1 == clearGuessTimeout(G, code)
             G2 == [G1 EXCEPT
                      !.rooms[code].started = FALSE,
                      !.rooms[code].phase = "lobby",
                      !.rooms[code].roles = noRoles,
                      !.rooms[code].secretWord = NoWord,
                      !.rooms[code].votes = noVotes,
                      !.rooms[code].pendingImpostorGuess = FALSE,
                      !.rooms[code].eliminatedImpostorId = NoId]
             G3 == touchRoom(G2, code)
             G4 == G3
             G5 == Emit(G4, [type |-> "gameReset", to |-> NoSock, room |-> code])
         IN  Emit(G5, [type |-> "phaseChanged", to |-> NoSock, room |-> code,
                       phase |-> "lobby"])

resetRoomForPlayAgain(G, code) ==
    IF roomAt(G, code) = NoRoom THEN G
    ELSE LET G1 == clearGuessTimeout(G, code)
             G2 == [G1 EXCEPT
                      !.rooms[code].started = FALSE,
                      !.rooms[code].phase = "lobby",
                      !.rooms[code].roles = noRoles,
                      !.rooms[code].secretWord = NoWord,
                      !.rooms[code].votes = noVotes,
                      !.rooms[code].pendingImpostorGuess = FALSE,
                      !.rooms[code].eliminatedImpostorId = NoId]
             G3 == touchRoom(G2, code)
             G4 == [G3 EXCEPT !.rooms[code].players =
                      [i \in DOMAIN @ |-> [@[i] EXCEPT !.eliminated = FALSE]]]
             G5 == Emit(G4, [type |-> "gameReset", to |-> NoSock, room |-> code])
         IN  Emit(G5, [type |-> "phaseChanged", to |-> NoSock, room |-> code,
                       phase |-> "lobby"])

\* updateTurnOrder leaving the turn order as it is
updateTurnOrderKeepingAll(G, code) == G

\* updateTurnOrder: drop the eliminated and the departed
updateTurnOrder(G, code) ==
    IF roomAt(G, code) = NoRoom \/ ~G.rooms[code].hasTurnOrder THEN G
    ELSE LET room == G.rooms[code]
             keep(pid) == LET i == findIndex(room.players, pid)
                          IN  i > 0 /\ ~room.players[i].eliminated
         IN  [G EXCEPT !.rooms[code].turnOrder = SelectSeq(@, keep)]

\* the check that lets an eliminated player be voted for
isValidVoteTargetAnyMember(room, voterId, targetId) ==
    /\ room # NoRoom /\ voterId # NoId /\ targetId # NoId
    /\ findIndex(room.players, voterId) > 0
    /\ findIndex(room.players, targetId) > 0
    /\ ~room.players[findIndex(room.players, voterId)].eliminated

isValidVoteTarget(room, voterId, targetId) ==
    /\ room # NoRoom /\ voterId # NoId /\ targetId # NoId
    /\ findIndex(room.players, voterId) > 0
    /\ findIndex(room.players, targetId) > 0
    /\ ~room.players[findIndex(room.players, voterId)].eliminated
    /\ ~room.players[findIndex(room.players, targetId)].eliminated

----------------------------------------------------------------------------
(* The disconnect handler.  socket.io takes the socket out of its rooms and  *)
(* out of io.sockets.sockets before the handler runs.                       *)

\* if (playerId && playerSockets[playerId] === socket.id) delete ...
releaseBinding(G, s, pid) ==
    IF pid # NoId /\ G.ps[pid] = s THEN [G EXCEPT !.ps[pid] = NoSock] ELSE G

\* the guesser's connection going away resolves the pending guess
disconnectResolvesGuess(G, s, code, pid) ==
    /\ code # NoCode
    /\ roomAt(G, code) # NoRoom
    /\ G.rooms[code].pendingImpostorGuess
    /\ pid # NoId
    /\ G.rooms[code].eliminatedImpostorId = pid

\* a departure that removes the player in whatever phase
leaveAnyPhase(G, code, pid) ==
    IF code # NoCode /\ roomAt(G, code) # NoRoom
    THEN LET left == removeId(G.rooms[code].players, pid)
         IN  IF Len(left) = 0
             THEN [G EXCEPT !.rooms[code] = NoRoom]
             ELSE LET G1 == [G EXCEPT !.rooms[code].players = left]
                  IN  IF pid # NoId
                      THEN [G1 EXCEPT !.rooms[code].roles[pid] = "none",
                                      !.rooms[code].votes[pid] = NoId]
                      ELSE G1
    ELSE G

\* a departure in the lobby removes the player; the last one removes the room
leaveLobby(G, code, pid) ==
    IF code # NoCode /\ roomAt(G, code) # NoRoom /\ G.rooms[code].phase = "lobby"
    THEN LET left == removeId(G.rooms[code].players, pid)
         IN  IF Len(left) = 0
             THEN [G EXCEPT !.rooms[code] = NoRoom]
             ELSE LET G1 == [G EXCEPT !.rooms[code].players = left]
                  IN  IF pid # NoId
                      THEN [G1 EXCEPT !.rooms[code].roles[pid] = "none",
                                      !.rooms[code].votes[pid] = NoId]
                      ELSE G1
    ELSE G

onDisconnect(G, s) ==
    LET pid == G.socks[s].playerId
        code == G.socks[s].roomCode
        G0 == [G EXCEPT !.socks[s].st = "closed", !.socks[s].joined = {}]
        G1 == releaseBinding(G0, s, pid)
        G2 == IF disconnectResolvesGuess(G1, s, code, pid)
              THEN endGameAfterGuess(G1, code, FALSE)
              ELSE G1
    IN  leaveLobby(G2, code, pid)

\* oldSocket.disconnect(true): the close runs the old socket's disconnect
\* handler at once when its write buffer is empty, and after the buffer has
\* drained otherwise; a socket that is already closing closes at once
forceDisconnect(G, s, atOnce) ==
    IF ~isLive(G, s) THEN G
    ELSE IF atOnce \/ G.socks[s].st = "closing" THEN onDisconnect(G, s)
    ELSE [G EXCEPT !.socks[s].st = "closing"]

----------------------------------------------------------------------------
(* Inputs *)

MAX_NAME_LENGTH == 20
MIN_NAME_LENGTH == 1

Digits == <<"0", "1", "2", "3", "4">>
isDigit(c) == \E i \in DOMAIN Digits : Digits[i] = c
digitValue(c) == (CHOOSE i \in DOMAIN Digits : Digits[i] = c) - 1
NaN == -1

\* parseInt(count, 10) of a short string: the leading digits, NaN without any
RECURSIVE parseDigits(_, _)
parseDigits(str, acc) ==
    IF str # <<>> /\ isDigit(Head(str))
    THEN parseDigits(Tail(str), 10 * acc + digitValue(Head(str)))
    ELSE acc

parseInt(str) ==
    LET t == trimStart(str)
    IN  IF t # <<>> /\ isDigit(Head(t)) THEN parseDigits(t, 0) ELSE NaN

isNameChar(c) ==
    \/ \E i \in DOMAIN UpperChars : UpperChars[i] = c
    \/ \E i \in DOMAIN LowerChars : LowerChars[i] = c
    \/ isDigit(c)
    \/ c \in {" ", "_", "-"}

isValidName(name) ==
    /\ name # <<>>
    /\ Len(trim(name)) >= MIN_NAME_LENGTH
    /\ Len(trim(name)) <= MAX_NAME_LENGTH
    /\ \A i \in DOMAIN trim(name) : isNameChar(trim(name)[i])

isValidWord(word) ==
    /\ word # <<>>
    /\ Len(trim(word)) > 0
    /\ Len(trim(word)) <= MAX_WORD_LENGTH
    /\ \A i \in DOMAIN trim(word) :
          isNameChar(trim(word)[i]) /\ trim(word)[i] \notin {"_", "-"}

\* a value that is not a string (typeof guess !== "string")
NotAString == <<"[object]">>
TooLong == [i \in 1..(MAX_WORD_LENGTH + 1) |-> "a"]

NameInputs == {<<" ", "B", "o", "b", " ">>, <<" ">>, <<"a", "!">>, <<>>}
CodeInputs == {AAAA, BBBB, <<"a", "a", "a", "a">>, <<"A", "1", "A", "A">>, NoCode}
CountInputs == {<<"0">>, <<"1">>, <<"2">>, <<"3">>, <<"4">>, <<"2", "x">>, <<"x">>}
GuessInputs == {<<"d", "o", "g">>, <<" ", "D", "O", "G", " ">>, <<"c", "a", "t">>,
                <<"d", "o", "g", "s">>, <<>>, TooLong, NotAString}
ModeInputs == {"preset", "custom", "other"}
CategoryInputs == {"Animals", "Plants"}
\* the lines of a submitted word list (wordsInput.split("\n"))
FiveWords == <<Dog, <<" ", "C", "a", "t", " ">>, <<"a">>, <<"b">>, <<>>, <<"c">>>>
FourWords == <<Dog, Cat, <<"a", "!">>, <<"a">>, <<"b">>>>
WordsInputs == {FiveWords, FourWords, <<>>}

gameError(why) == [type |-> "gameError", to |-> NoSock, why |-> why]
joinError(why) == [type |-> "joinError", to |-> NoSock, why |-> why]

\* checkRateLimit finding the counter of this connection and event kind over
\* its limit: the refusal is reported and the handler returns
rateLimited(G, s) == EmitTo(G, s, gameError("Too many requests"))

----------------------------------------------------------------------------
(* Handlers *)

\* bind leaving the room code of the connection as it was
bindKeepingRoom(G, s, pid, code) ==
    [G EXCEPT !.ps[pid] = s,
              !.socks[s].playerId = pid,
              !.socks[s].joined = @ \cup {code}]

bind(G, s, pid, code) ==
    [G EXCEPT !.ps[pid] = s,
              !.socks[s].playerId = pid,
              !.socks[s].roomCode = code,
              !.socks[s].joined = @ \cup {code}]

\* the snapshot of reconnectSuccess, read from the room and player objects
\* the handler looked up before it closed the old connection
snapshot(room, player, pid, code) ==
    LET role == room.roles[pid]
    IN  [type |-> "reconnectSuccess", to |-> NoSock, roomCode |-> code,
         isHost |-> (room.hostId = pid), phase |-> room.phase, role |-> role,
         word |-> IF role = "crew" THEN room.secretWord ELSE NoWord,
         eliminated |-> player.eliminated,
         pendingGuess |-> (room.pendingImpostorGuess
                           /\ room.eliminatedImpostorId = pid)]

reconnect(G, s, pid, rawCode, atOnce) ==
    LET failed == EmitTo(G, s, [type |-> "reconnectFailed", to |-> NoSock])
        roomCode == toUpperCase(rawCode)
    IN  IF pid = NoId \/ rawCode = NoCode THEN failed
        ELSE IF ~isValidRoomCode(roomCode) THEN failed
        ELSE IF roomAt(G, roomCode) = NoRoom THEN failed
        ELSE IF findPlayerInRoom(G.rooms[roomCode], pid) = 0 THEN failed
        ELSE LET room0 == G.rooms[roomCode]
                 player == room0.players[findPlayerInRoom(room0, pid)]
                 G1 == IF G.ps[pid] # NoSock /\ G.ps[pid] # s
                       THEN forceDisconnect(G, G.ps[pid], atOnce)
                       ELSE G
                 G2 == touchRoom(bind(G1, s, pid, roomCode), roomCode)
                 \* the room object survives its removal from the table
                 room == IF G2.rooms[roomCode] # NoRoom THEN G2.rooms[roomCode]
                         ELSE [room0 EXCEPT !.players = <<>>,
                                            !.roles[pid] = "none",
                                            !.votes[pid] = NoId]
             IN  EmitTo(G2, s, snapshot(room, player, pid, roomCode))

\* generateCode returned code (NoCode for null)
\* the handler without the test of the room count
createSessionUnbounded(G, s, pid, name, code, atOnce) ==
    IF name = <<>> \/ pid = NoId
    THEN EmitTo(G, s, joinError("Invalid request"))
    ELSE IF ~isValidName(trim(name)) THEN EmitTo(G, s, joinError("Invalid name"))
    ELSE IF code = NoCode THEN EmitTo(G, s, joinError("Could not create room"))
    ELSE LET G1 == IF G.ps[pid] # NoSock
                   THEN forceDisconnect(G, G.ps[pid], atOnce)
                   ELSE G
             G2 == [G1 EXCEPT !.rooms[code] = newRoom(pid)]
             G3 == bind(G2, s, pid, code)
             G4 == EmitTo(G3, s, [type |-> "sessionCreated", to |-> NoSock,
                                  code |-> code])
         IN  Emit(G4, [type |-> "phaseChanged", to |-> NoSock, room |-> code,
                       phase |-> "lobby"])

createSession(G, s, pid, name, code, atOnce) ==
    IF name = <<>> \/ pid = NoId
    THEN EmitTo(G, s, joinError("Invalid request"))
    ELSE IF ~isValidName(trim(name)) THEN EmitTo(G, s, joinError("Invalid name"))
    ELSE IF getRoomCount(G) >= MAX_ROOMS THEN EmitTo(G, s, joinError("Server is full"))
    ELSE IF code = NoCode THEN EmitTo(G, s, joinError("Could not create room"))
    ELSE LET G1 == IF G.ps[pid] # NoSock
                   THEN forceDisconnect(G, G.ps[pid], atOnce)
                   ELSE G
             G2 == [G1 EXCEPT !.rooms[code] = newRoom(pid)]
             G3 == bind(G2, s, pid, code)
             G4 == EmitTo(G3, s, [type |-> "sessionCreated", to |-> NoSock,
                                  code |-> code])
         IN  Emit(G4, [type |-> "phaseChanged", to |-> NoSock, room |-> code,
                       phase |-> "lobby"])

\* the handler without the test of membership
joinSessionAgain(G, s, pid, name, rawCode, atOnce) ==
    LET code == toUpperCase(rawCode)
    IN  IF rawCode = NoCode \/ name = <<>> \/ pid = NoId
        THEN EmitTo(G, s, joinError("Invalid request"))
        ELSE IF ~isValidRoomCode(code)
        THEN EmitTo(G, s, joinError("Invalid session code format"))
        ELSE IF ~isValidName(trim(name)) THEN EmitTo(G, s, joinError("Invalid name"))
        ELSE IF roomAt(G, code) = NoRoom
        THEN EmitTo(G, s, joinError("Invalid session code"))
        ELSE IF G.rooms[code].phase # "lobby"
        THEN EmitTo(G, s, joinError("Game already started"))
        ELSE IF Len(G.rooms[code].players) >= MAX_PLAYERS_PER_ROOM
        THEN EmitTo(G, s, joinError("Room is full"))
        ELSE LET room0 == G.rooms[code]
                 G1 == IF G.ps[pid] # NoSock
                       THEN forceDisconnect(G, G.ps[pid], atOnce)
                       ELSE G
                 \* room.players.push on the room object looked up above
                 joined == Append(IF G1.rooms[code] # NoRoom
                                  THEN G1.rooms[code].players ELSE <<>>,
                                  [id |-> pid, isHost |-> FALSE,
                                   eliminated |-> FALSE])
                 G2 == IF G1.rooms[code] # NoRoom
                       THEN [G1 EXCEPT !.rooms[code].players = joined]
                       ELSE G1
                 G3 == touchRoom(bind(G2, s, pid, code), code)
                 G4 == EmitTo(G3, s, [type |-> "sessionJoined", to |-> NoSock,
                                      code |-> code])
             IN  Emit(G4, [type |-> "phaseChanged", to |-> NoSock, room |-> code,
                           phase |-> room0.phase])

joinSession(G, s, pid, name, rawCode, atOnce) ==
    LET code == toUpperCase(rawCode)
    IN  IF rawCode = NoCode \/ name = <<>> \/ pid = NoId
        THEN EmitTo(G, s, joinError("Invalid request"))
        ELSE IF ~isValidRoomCode(code)
        THEN EmitTo(G, s, joinError("Invalid session code format"))
        ELSE IF ~isValidName(trim(name)) THEN EmitTo(G, s, joinError("Invalid name"))
        ELSE IF roomAt(G, code) = NoRoom
        THEN EmitTo(G, s, joinError("Invalid session code"))
        ELSE IF G.rooms[code].phase # "lobby"
        THEN EmitTo(G, s, joinError("Game already started"))
        ELSE IF Len(G.rooms[code].players) >= MAX_PLAYERS_PER_ROOM
        THEN EmitTo(G, s, joinError("Room is full"))
        ELSE IF findPlayerInRoom(G.rooms[code], pid) # 0
        THEN EmitTo(G, s, joinError("Already in this session"))
        ELSE LET room0 == G.rooms[code]
                 G1 == IF G.ps[pid] # NoSock
                       THEN forceDisconnect(G, G.ps[pid], atOnce)
                       ELSE G
                 \* room.players.push on the room object looked up above
                 joined == Append(IF G1.rooms[code] # NoRoom
                                  THEN G1.rooms[code].players ELSE <<>>,
                                  [id |-> pid, isHost |-> FALSE,
                                   eliminated |-> FALSE])
                 G2 == IF G1.rooms[code] # NoRoom
                       THEN [G1 EXCEPT !.rooms[code].players = joined]
                       ELSE G1
                 G3 == touchRoom(bind(G2, s, pid, code), code)
                 G4 == EmitTo(G3, s, [type |-> "sessionJoined", to |-> NoSock,
                                      code |-> code])
             IN  Emit(G4, [type |-> "phaseChanged", to |-> NoSock, room |-> code,
                           phase |-> room0.phase])

\* the guards shared by the host's lobby settings: a silent return
lobbyHost(G, s) ==
    LET code == G.socks[s].roomCode
    IN  /\ roomAt(G, code) # NoRoom
        /\ G.rooms[code].hostId = G.socks[s].playerId
        /\ G.rooms[code].phase = "lobby"

setImpostorCount(G, s, count) ==
    LET code == G.socks[s].roomCode
        numCount == parseInt(count)
    IN  IF ~lobbyHost(G, s) THEN G
        ELSE IF numCount = NaN \/ numCount < MIN_IMPOSTORS \/ numCount > MAX_IMPOSTORS
        THEN EmitTo(G, s, gameError("Invalid impostor count"))
        ELSE touchRoom([G EXCEPT !.rooms[code].impostorCount = numCount], code)

selectMode(G, s, mode) ==
    LET code == G.socks[s].roomCode
    IN  IF ~lobbyHost(G, s) THEN G
        ELSE IF mode # "preset" /\ mode # "custom" THEN G
        ELSE touchRoom([G EXCEPT !.rooms[code].mode = mode,
                                 !.rooms[code].selectedCategory = NoCategory,
                                 !.rooms[code].customWords = <<>>], code)

selectCategory(G, s, categoryName) ==
    LET code == G.socks[s].roomCode
    IN  IF ~lobbyHost(G, s) THEN G
        ELSE IF G.rooms[code].mode # "preset" THEN G
        ELSE IF categoryName \notin CategoryNames
        THEN EmitTo(G, s, gameError("Invalid category"))
        ELSE touchRoom([G EXCEPT !.rooms[code].selectedCategory = categoryName],
                       code)

trimAll(lines) == [i \in DOMAIN lines |-> trim(lines[i])]

submitCustomWords(G, s, lines) ==
    LET code == G.socks[s].roomCode
        words == SelectSeq(trimAll(lines), LAMBDA w : Len(w) > 0)
        validWords == SelectSeq(words, isValidWord)
        isValid == Len(validWords) >= MIN_CUSTOM_WORDS
    IN  IF ~lobbyHost(G, s) THEN G
        ELSE IF G.rooms[code].mode # "custom" THEN G
        ELSE LET G1 == [G EXCEPT !.rooms[code].customWords =
                                   IF isValid THEN validWords ELSE <<>>]
                 G2 == touchRoom(G1, code)
             IN  IF ~isValid /\ Len(words) > 0
                 THEN EmitTo(G2, s, gameError("Need more valid words"))
                 ELSE G2

----------------------------------------------------------------------------
(* Game handlers *)

\* the word list startGame draws from, <<>> when the word source is not ready
wordListOf(room) ==
    IF room.mode = "preset"
    THEN IF room.selectedCategory = NoCategory THEN <<>>
         ELSE categories[room.selectedCategory]
    ELSE IF Len(room.customWords) < MIN_CUSTOM_WORDS THEN <<>>
         ELSE room.customWords

\* the forEach with one impostor too many (index <= impostorCount)
assignRolesOneMore(roles, players, shuffle, impostorCount) ==
    [p \in Ids |->
        IF \E i \in DOMAIN players : players[shuffle[i]].id = p
        THEN LET i == CHOOSE i \in DOMAIN players : players[shuffle[i]].id = p
             IN  IF i - 1 <= impostorCount THEN "impostor" ELSE "crew"
        ELSE roles[p]]

\* shuffledForRoles.forEach: the first impostorCount of the shuffle are impostors
assignRoles(roles, players, shuffle, impostorCount) ==
    [p \in Ids |->
        IF \E i \in DOMAIN players : players[shuffle[i]].id = p
        THEN LET i == CHOOSE i \in DOMAIN players : players[shuffle[i]].id = p
             IN  IF i - 1 < impostorCount THEN "impostor" ELSE "crew"
        ELSE roles[p]]

\* the word field filled in for every role
wordForAnyRole(role, secretWord) == secretWord

\* the word field of roleAssigned
wordFor(role, secretWord) == IF role = "impostor" THEN NoWord ELSE secretWord

RECURSIVE notifyRoles(_, _, _)
notifyRoles(G, code, i) ==
    IF i > Len(G.rooms[code].players) THEN G
    ELSE LET room == G.rooms[code]
             pid == room.players[i].id
             role == room.roles[pid]
             G1 == EmitToPlayer(G, pid, [type |-> "roleAssigned", to |-> NoSock,
                                         room |-> code, player |-> pid,
                                         role |-> role,
                                         word |-> wordFor(role, room.secretWord)])
         IN  notifyRoles(G1, code, i + 1)

\* the refusal without the comparison of the impostor count with the players
startRefusalAnyCount(G, s) ==
    LET room == roomAt(G, G.socks[s].roomCode)
    IN  IF room.hostId # G.socks[s].playerId THEN "Only the host can start the game"
        ELSE IF room.phase # "lobby" THEN "Game already started"
        ELSE IF Len(room.players) < 2 THEN "Need at least 2 players"
        ELSE IF room.impostorCount < MIN_IMPOSTORS THEN "Need at least 1 impostor"
        ELSE IF wordListOf(room) = <<>> THEN "Word source not ready"
        ELSE ""

\* the refusal of startGame, "" when every check passes; the checks run in
\* the order of the handler, after the silent return for a missing room
startRefusal(G, s) ==
    LET room == roomAt(G, G.socks[s].roomCode)
    IN  IF room.hostId # G.socks[s].playerId THEN "Only the host can start the game"
        ELSE IF room.phase # "lobby" THEN "Game already started"
        ELSE IF Len(room.players) < 2 THEN "Need at least 2 players"
        ELSE IF room.impostorCount < MIN_IMPOSTORS THEN "Need at least 1 impostor"
        ELSE IF room.impostorCount >= Len(room.players)
        THEN "Need at least 1 crew member"
        ELSE IF wordListOf(room) = <<>> THEN "Word source not ready"
        ELSE ""

\* startGame without the draw of the secret word
startGameWithoutWord(G, s, wordPick, roleShuffle, turnShuffle) ==
    LET code == G.socks[s].roomCode
        room == roomAt(G, code)
    IN  IF room = NoRoom THEN G
        ELSE IF startRefusal(G, s) # "" THEN EmitTo(G, s, gameError(startRefusal(G, s)))
        ELSE LET wordList == wordListOf(room)
                 G1 == [G EXCEPT
                          !.rooms[code].started = TRUE,
                          !.rooms[code].pendingImpostorGuess = FALSE,
                          !.rooms[code].eliminatedImpostorId = NoId]
                 G2 == touchRoom(G1, code)
                 G3 == [G2 EXCEPT
                          !.rooms[code].players =
                              [i \in DOMAIN @ |-> [@[i] EXCEPT !.eliminated = FALSE]],
                          !.rooms[code].roles =
                              assignRoles(@, room.players, roleShuffle,
                                          room.impostorCount),
                          !.rooms[code].hasTurnOrder = TRUE,
                          !.rooms[code].turnOrder =
                              [i \in DOMAIN room.players |->
                                  room.players[turnShuffle[i]].id]]
                 G4 == notifyRoles(G3, code, 1)
             IN  setPhase(G4, code, "discussion")

\* wordPick (an index into the word list), roleShuffle and turnShuffle are the
\* three random draws
startGame(G, s, wordPick, roleShuffle, turnShuffle) ==
    LET code == G.socks[s].roomCode
        room == roomAt(G, code)
    IN  IF room = NoRoom THEN G
        ELSE IF startRefusal(G, s) # "" THEN EmitTo(G, s, gameError(startRefusal(G, s)))
        ELSE LET wordList == wordListOf(room)
                 G1 == [G EXCEPT
                          !.rooms[code].started = TRUE,
                          !.rooms[code].secretWord = wordList[wordPick],
                          !.rooms[code].pendingImpostorGuess = FALSE,
                          !.rooms[code].eliminatedImpostorId = NoId]
                 G2 == touchRoom(G1, code)
                 G3 == [G2 EXCEPT
                          !.rooms[code].players =
                              [i \in DOMAIN @ |-> [@[i] EXCEPT !.eliminated = FALSE]],
                          !.rooms[code].roles =
                              assignRoles(@, room.players, roleShuffle,
                                          room.impostorCount),
                          !.rooms[code].hasTurnOrder = TRUE,
                          !.rooms[code].turnOrder =
                              [i \in DOMAIN room.players |->
                                  room.players[turnShuffle[i]].id]]
                 G4 == notifyRoles(G3, code, 1)
             IN  setPhase(G4, code, "discussion")

\* the comparison without trimming and lower-casing
isCorrectGuessExact(guess, secretWord) == guess = secretWord

isCorrectGuess(guess, secretWord) ==
    toLowerCase(trim(guess)) = toLowerCase(trim(secretWord))

submitWordGuess(G, s, guess) ==
    LET code == G.socks[s].roomCode
        room == roomAt(G, code)
    IN  IF room = NoRoom THEN G
        ELSE IF ~room.pendingImpostorGuess THEN G
        ELSE IF room.eliminatedImpostorId # G.socks[s].playerId THEN G
        ELSE IF guess = NotAString \/ Len(guess) > MAX_WORD_LENGTH
        THEN EmitTo(G, s, gameError("Invalid guess"))
        ELSE LET isCorrect == isCorrectGuess(guess, room.secretWord)
                 G1 == Emit(G, [type |-> "impostorGuessResult", to |-> NoSock,
                                room |-> code, correct |-> isCorrect,
                                guessedWord |-> guess])
             IN  endGameAfterGuess(G1, code, isCorrect)

\* the handler without the test of the host
requestStartVotingByAnyone(G, s) ==
    LET code == G.socks[s].roomCode
        room == roomAt(G, code)
    IN  IF room = NoRoom THEN G
        ELSE IF room.phase # "discussion"
        THEN EmitTo(G, s, gameError("Can only start voting during discussion phase"))
        ELSE setPhase(touchRoom([G EXCEPT !.rooms[code].votes = noVotes], code),
                      code, "voting")

requestStartVoting(G, s) ==
    LET code == G.socks[s].roomCode
        room == roomAt(G, code)
    IN  IF room = NoRoom THEN G
        ELSE IF room.hostId # G.socks[s].playerId
        THEN EmitTo(G, s, gameError("Only the host can start voting"))
        ELSE IF room.phase # "discussion"
        THEN EmitTo(G, s, gameError("Can only start voting during discussion phase"))
        ELSE setPhase(touchRoom([G EXCEPT !.rooms[code].votes = noVotes], code),
                      code, "voting")

\* the test that refuses no game
gameDecidedNever(room) == FALSE

\* the test of requestNextRound that refuses a decided game
gameDecided(room) ==
    \/ Len(aliveWithRole(room, "impostor")) = 0
    \/ Len(aliveWithRole(room, "impostor")) >= Len(aliveWithRole(room, "crew"))

requestNextRound(G, s) ==
    LET code == G.socks[s].roomCode
        room == roomAt(G, code)
    IN  IF room = NoRoom THEN G
        ELSE IF room.hostId # G.socks[s].playerId
        THEN EmitTo(G, s, gameError("Only the host can start the next round"))
        ELSE IF room.phase # "results"
        THEN EmitTo(G, s, gameError("Can only start next round after results"))
        ELSE IF gameDecided(room)
        THEN EmitTo(G, s, gameError("Game has already ended"))
        ELSE LET G1 == touchRoom([G EXCEPT !.rooms[code].votes = noVotes], code)
             IN  setPhase(updateTurnOrder(G1, code), code, "discussion")

\* requestEndVoting without the test of the phase
requestEndVotingAnyPhase(G, s) ==
    LET code == G.socks[s].roomCode
        room == roomAt(G, code)
    IN  IF room = NoRoom THEN G
        ELSE IF room.hostId # G.socks[s].playerId
        THEN EmitTo(G, s, gameError("Only the host can end voting"))
        ELSE tallyVotes(G, code)

requestEndVoting(G, s) ==
    LET code == G.socks[s].roomCode
        room == roomAt(G, code)
    IN  IF room = NoRoom THEN G
        ELSE IF room.hostId # G.socks[s].playerId
        THEN EmitTo(G, s, gameError("Only the host can end voting"))
        ELSE IF room.phase # "voting"
        THEN EmitTo(G, s, gameError("Can only end voting during voting phase"))
        ELSE tallyVotes(G, code)

playAgainFailed(G, s, why) ==
    EmitTo(EmitTo(G, s, gameError(why)), s,
           [type |-> "playAgainFailed", to |-> NoSock])

\* the handler without the test of the phase
requestPlayAgainAnyPhase(G, s, dataCode, dataId) ==
    LET code == IF dataCode # NoCode THEN dataCode ELSE G.socks[s].roomCode
        playerId == IF dataId # NoId THEN dataId ELSE G.socks[s].playerId
    IN  IF code = NoCode \/ ~isValidRoomCode(code)
        THEN playAgainFailed(G, s, "Session expired")
        ELSE IF roomAt(G, code) = NoRoom THEN playAgainFailed(G, s, "Room not found")
        ELSE IF playerId = NoId THEN playAgainFailed(G, s, "Session expired")
        ELSE LET G1 == [G EXCEPT !.socks[s].roomCode = code,
                                 !.socks[s].playerId = playerId,
                                 !.socks[s].joined = @ \cup {code}]
             IN  IF G1.rooms[code].hostId # playerId
                 THEN playAgainFailed(G1, s, "Only the host can restart the game")
                 ELSE resetRoomForPlayAgain(G1, code)

\* dataCode and dataId are data.roomCode and data.playerId, NoCode and NoId
\* when the request carries none
requestPlayAgain(G, s, dataCode, dataId) ==
    LET code == IF dataCode # NoCode THEN dataCode ELSE G.socks[s].roomCode
        playerId == IF dataId # NoId THEN dataId ELSE G.socks[s].playerId
    IN  IF code = NoCode \/ ~isValidRoomCode(code)
        THEN playAgainFailed(G, s, "Session expired")
        ELSE IF roomAt(G, code) = NoRoom THEN playAgainFailed(G, s, "Room not found")
        ELSE IF playerId = NoId THEN playAgainFailed(G, s, "Session expired")
        ELSE LET G1 == [G EXCEPT !.socks[s].roomCode = code,
                                 !.socks[s].playerId = playerId,
                                 !.socks[s].joined = @ \cup {code}]
             IN  IF G1.rooms[code].hostId # playerId
                 THEN playAgainFailed(G1, s, "Only the host can restart the game")
                 ELSE IF G1.rooms[code].phase # "ended"
                 THEN playAgainFailed(G1, s, "Can only restart after game ends")
                 ELSE resetRoomForPlayAgain(G1, code)

\* kickPlayer without the evaluation of the win conditions
kickPlayerUnchecked(G, s, targetPlayerId) ==
    LET code == G.socks[s].roomCode
        room == roomAt(G, code)
    IN  IF room = NoRoom THEN G
        ELSE IF room.hostId # G.socks[s].playerId
        THEN EmitTo(G, s, gameError("Only the host can kick players"))
        ELSE IF targetPlayerId = G.socks[s].playerId
        THEN EmitTo(G, s, gameError("You cannot kick yourself"))
        ELSE IF findIndex(room.players, targetPlayerId) = 0
        THEN EmitTo(G, s, gameError("Player not found"))
        ELSE LET G1 == [G EXCEPT
                          !.rooms[code].players = removeId(@, targetPlayerId),
                          !.rooms[code].roles[targetPlayerId] = "none",
                          !.rooms[code].votes[targetPlayerId] = NoId,
                          !.rooms[code].turnOrder =
                              SelectSeq(@, LAMBDA p : p # targetPlayerId)]
                 G2 == touchRoom(G1, code)
                 targetSocketId == G2.ps[targetPlayerId]
                 G3 == IF targetSocketId # NoSock
                       THEN LET G3a == EmitTo(G2, targetSocketId,
                                          [type |-> "kicked", to |-> NoSock])
                                G3b == IF isLive(G3a, targetSocketId)
                                       THEN [G3a EXCEPT
                                               !.socks[targetSocketId].joined =
                                                   @ \ {code}]
                                       ELSE G3a
                            IN  [G3b EXCEPT !.ps[targetPlayerId] = NoSock]
                       ELSE G2
             IN  G3

kickPlayer(G, s, targetPlayerId) ==
    LET code == G.socks[s].roomCode
        room == roomAt(G, code)
    IN  IF room = NoRoom THEN G
        ELSE IF room.hostId # G.socks[s].playerId
        THEN EmitTo(G, s, gameError("Only the host can kick players"))
        ELSE IF targetPlayerId = G.socks[s].playerId
        THEN EmitTo(G, s, gameError("You cannot kick yourself"))
        ELSE IF findIndex(room.players, targetPlayerId) = 0
        THEN EmitTo(G, s, gameError("Player not found"))
        ELSE LET G1 == [G EXCEPT
                          !.rooms[code].players = removeId(@, targetPlayerId),
                          !.rooms[code].roles[targetPlayerId] = "none",
                          !.rooms[code].votes[targetPlayerId] = NoId,
                          !.rooms[code].turnOrder =
                              SelectSeq(@, LAMBDA p : p # targetPlayerId)]
                 G2 == touchRoom(G1, code)
                 targetSocketId == G2.ps[targetPlayerId]
                 G3 == IF targetSocketId # NoSock
                       THEN LET G3a == EmitTo(G2, targetSocketId,
                                          [type |-> "kicked", to |-> NoSock])
                                G3b == IF isLive(G3a, targetSocketId)
                                       THEN [G3a EXCEPT
                                               !.socks[targetSocketId].joined =
                                                   @ \ {code}]
                                       ELSE G3a
                            IN  [G3b EXCEPT !.ps[targetPlayerId] = NoSock]
                       ELSE G2
             IN  IF G3.rooms[code].phase # "lobby" /\ G3.rooms[code].phase # "ended"
                 THEN checkWinConditions(G3, code)
                 ELSE G3

\* submitVote keeping a voter's first ballot
submitVoteKeepingFirst(G, s, votedPlayerId) ==
    LET code == G.socks[s].roomCode
        room == roomAt(G, code)
        voterId == G.socks[s].playerId
    IN  IF room = NoRoom THEN G
        ELSE IF room.phase # "voting" THEN G
        ELSE IF ~isValidVoteTarget(room, voterId, votedPlayerId)
        THEN EmitTo(G, s, gameError("Invalid vote target"))
        ELSE LET G1 == touchRoom(IF room.votes[voterId] # NoId THEN G
                                 ELSE [G EXCEPT !.rooms[code].votes[voterId] =
                                                    votedPlayerId], code)
                 voteCount == Cardinality(voteKeys(G1.rooms[code].votes))
                 aliveCount == Len(alivePlayersOf(G1.rooms[code]))
             IN  IF voteCount >= aliveCount THEN tallyVotes(G1, code) ELSE G1

submitVote(G, s, votedPlayerId) ==
    LET code == G.socks[s].roomCode
        room == roomAt(G, code)
        voterId == G.socks[s].playerId
    IN  IF room = NoRoom THEN G
        ELSE IF room.phase # "voting" THEN G
        ELSE IF ~isValidVoteTarget(room, voterId, votedPlayerId)
        THEN EmitTo(G, s, gameError("Invalid vote target"))
        ELSE LET G1 == touchRoom([G EXCEPT !.rooms[code].votes[voterId] =
                                               votedPlayerId], code)
                 voteCount == Cardinality(voteKeys(G1.rooms[code].votes))
                 aliveCount == Len(alivePlayersOf(G1.rooms[code]))
             IN  IF voteCount >= aliveCount THEN tallyVotes(G1, code) ELSE G1

\* the callback with its test of the pending flag inverted
guessTimeoutFiresInverted(G, code) ==
    LET G1 == [G EXCEPT !.rooms[code].guessTimeout = "fired"]
    IN  IF ~G1.rooms[code].pendingImpostorGuess
        THEN endGameAfterGuess(G1, code, FALSE)
        ELSE G1

\* the setTimeout callback armed by tallyVotes
guessTimeoutFires(G, code) ==
    LET G1 == [G EXCEPT !.rooms[code].guessTimeout = "fired"]
    IN  IF G1.rooms[code].pendingImpostorGuess
        THEN endGameAfterGuess(G1, code, FALSE)
        ELSE G1

\* cleanupInactiveRooms, for one room of the forEach
RECURSIVE dropBindings(_, _, _)
dropBindings(ps, players, i) ==
    IF i > Len(players) THEN ps
    ELSE dropBindings([ps EXCEPT ![players[i].id] = NoSock], players, i + 1)

cleanupRoom(G, code) ==
    IF G.rooms[code] # NoRoom /\ now - G.rooms[code].lastActivity > ROOM_INACTIVE_TIMEOUT
    THEN [G EXCEPT !.ps = dropBindings(@, G.rooms[code].players, 1),
                   !.rooms[code] = NoRoom]
    ELSE G

\* Object.keys(rooms).forEach over the rooms there are
cleanupInactiveRooms(G) ==
    cleanupRoom(cleanupRoom(cleanupRoom(G, AAAA), BBBB), CCCC)

----------------------------------------------------------------------------
(* Actions: one per event handler, timer callback or connection event *)

Here == [rooms |-> rooms, ps |-> playerSockets, socks |-> socks, out |-> <<>>]

Commit(G) ==
    /\ rooms' = G.rooms
    /\ playerSockets' = G.ps
    /\ socks' = G.socks
    /\ UNCHANGED now

canSend(s) == socks[s].st = "open"

roomOfSocket(s) == roomAt(Here, socks[s].roomCode)

\* data.playerId as the client sends it: its persistent identity, or nothing
sentId(s) == {socks[s].owner, NoId}

\* the codes Math.random produces, draw after draw, for one call
DrawSeqs == [1..(MaxAttempts + 1) -> CodePool]

\* the do-while loop after `attempts` draws: the next draw is counted, null is
\* returned past the bound, a code that some room has is drawn again
RECURSIVE generateCodeLoop(_, _, _)
generateCodeLoop(G, draws, attempts) ==
    LET code == draws[attempts + 1]
    IN  IF attempts + 1 > MaxAttempts
        THEN [code |-> NoCode, attempts |-> attempts + 1]
        ELSE IF G.rooms[code] # NoRoom
        THEN generateCodeLoop(G, draws, attempts + 1)
        ELSE [code |-> code, attempts |-> attempts + 1]

\* generateCode returning its first draw
generateCodeFirstDraw(G, draws) == draws[1]

generateCode(G, draws) == generateCodeLoop(G, draws, 0).code

\* what generateCode can return: a drawn code that is free, or null after a
\* run of collisions, which takes at least one room to collide with
generateCodeResults ==
    {c \in CodePool : rooms[c] = NoRoom}
        \cup (IF \E c \in CodePool : rooms[c] # NoRoom THEN {NoCode} ELSE {})

\* whether oldSocket.disconnect(true) closes at once or after a drain is a
\* choice only where a live connection holds the identity
closings(pid) ==
    IF pid # NoId /\ isLive(Here, playerSockets[pid]) THEN BOOLEAN ELSE {TRUE}

\* the index Math.floor(Math.random() * wordList.length) can take
wordPicks(s) ==
    IF roomOfSocket(s) # NoRoom /\ startRefusal(Here, s) = ""
    THEN DOMAIN wordListOf(roomOfSocket(s))
    ELSE {1}

\* the orders shuffleArray can return
shuffles(s) ==
    IF roomOfSocket(s) # NoRoom /\ startRefusal(Here, s) = ""
    THEN Perms(roomOfSocket(s).players)
    ELSE {<<>>}

Connect ==
    \E s \in Sockets, owner \in Ids :
        /\ socks[s].st = "fresh"
        /\ Commit([Here EXCEPT !.socks[s].st = "open", !.socks[s].owner = owner])

Disconnect ==
    \E s \in Sockets :
        /\ isLive(Here, s)
        /\ Commit(onDisconnect(Here, s))

Reconnect ==
    \E s \in Sockets :
        /\ canSend(s)
        /\ \E pid \in sentId(s), rawCode \in CodeInputs :
              \E atOnce \in closings(pid) :
                 Commit(reconnect(Here, s, pid, rawCode, atOnce))

CreateSession ==
    \E s \in Sockets :
        /\ canSend(s)
        /\ \E pid \in sentId(s), name \in NameInputs, code \in generateCodeResults :
              \E atOnce \in closings(pid) :
                 Commit(createSession(Here, s, pid, name, code, atOnce))

JoinSession ==
    \E s \in Sockets :
        /\ canSend(s)
        /\ \E pid \in sentId(s), name \in NameInputs, rawCode \in CodeInputs :
              \E atOnce \in closings(pid) :
                 Commit(joinSession(Here, s, pid, name, rawCode, atOnce))

SetImpostorCount ==
    \E s \in Sockets, count \in CountInputs :
        /\ canSend(s)
        /\ Commit(setImpostorCount(Here, s, count))

SelectMode ==
    \E s \in Sockets, mode \in ModeInputs :
        /\ canSend(s)
        /\ Commit(selectMode(Here, s, mode))

SelectCategory ==
    \E s \in Sockets, categoryName \in CategoryInputs :
        /\ canSend(s)
        /\ Commit(selectCategory(Here, s, categoryName))

SubmitCustomWords ==
    \E s \in Sockets, lines \in WordsInputs :
        /\ canSend(s)
        /\ Commit(submitCustomWords(Here, s, lines))

StartGame ==
    \E s \in Sockets :
        /\ canSend(s)
        /\ \E wordPick \in wordPicks(s), roleShuffle \in shuffles(s),
              turnShuffle \in shuffles(s) :
              Commit(startGame(Here, s, wordPick, roleShuffle, turnShuffle))

\* the order a shuffle leaves as it found it (every draw j = i)
unshuffled(s) ==
    IF roomOfSocket(s) # NoRoom /\ startRefusal(Here, s) = ""
    THEN {[i \in DOMAIN roomOfSocket(s).players |-> i]}
    ELSE {<<>>}

\* startGame with the word and the roles drawn at random and the second
\* shuffle, of the turn order, leaving the players in their order
StartGameInOrder ==
    \E s \in Sockets :
        /\ canSend(s)
        /\ \E wordPick \in wordPicks(s), roleShuffle \in shuffles(s),
              turnShuffle \in unshuffled(s) :
              Commit(startGame(Here, s, wordPick, roleShuffle, turnShuffle))

\* the guess matters to the handler only once its silent returns are passed
guessesOf(s) ==
    IF roomOfSocket(s) # NoRoom /\ roomOfSocket(s).pendingImpostorGuess
    THEN GuessInputs
    ELSE {<<>>}

SubmitWordGuess ==
    \E s \in Sockets :
        /\ canSend(s)
        /\ \E guess \in guessesOf(s) :
              Commit(submitWordGuess(Here, s, guess))

RequestStartVoting ==
    \E s \in Sockets :
        /\ canSend(s)
        /\ Commit(requestStartVoting(Here, s))

RequestNextRound ==
    \E s \in Sockets :
        /\ canSend(s)
        /\ Commit(requestNextRound(Here, s))

RequestEndVoting ==
    \E s \in Sockets :
        /\ canSend(s)
        /\ Commit(requestEndVoting(Here, s))

RequestPlayAgain ==
    \E s \in Sockets :
        /\ canSend(s)
        /\ \E dataCode \in CodeInputs, dataId \in sentId(s) :
              Commit(requestPlayAgain(Here, s, dataCode, dataId))

KickPlayer ==
    \E s \in Sockets, targetPlayerId \in Ids \cup {NoId} :
        /\ canSend(s)
        /\ Commit(kickPlayer(Here, s, targetPlayerId))

SubmitVote ==
    \E s \in Sockets, votedPlayerId \in Ids \cup {NoId} :
        /\ canSend(s)
        /\ Commit(submitVote(Here, s, votedPlayerId))

\* any rate-limited handler when checkRateLimit refuses the event
RateLimit ==
    \E s \in Sockets :
        /\ canSend(s)
        /\ Commit(rateLimited(Here, s))

\* the timer of one room runs out
GuessTimeoutOf(code) ==
    /\ rooms[code] # NoRoom
    /\ rooms[code].guessTimeout = "armed"
    /\ Commit(guessTimeoutFires(Here, code))

GuessTimeout == \E code \in CodePool : GuessTimeoutOf(code)

----------------------------------------------------------------------------
(* Specifications *)

\* owner is the identity the client behind the connection keeps in its
\* local storage and sends as data.playerId
freshSocket ==
    [st |-> "fresh", owner |-> NoId, playerId |-> NoId, roomCode |-> NoCode,
     joined |-> {}]

\* the server after start-up: no room, no connection
Init ==
    /\ rooms = [c \in CodePool |-> NoRoom]
    /\ playerSockets = [p \in Ids |-> NoSock]
    /\ socks = [s \in Sockets |-> freshSocket]
    /\ now = 0

Next ==
    \/ Connect
    \/ Disconnect
    \/ Reconnect
    \/ CreateSession
    \/ JoinSession
    \/ SetImpostorCount
    \/ SelectMode
    \/ SelectCategory
    \/ SubmitCustomWords
    \/ StartGame
    \/ SubmitWordGuess
    \/ RequestStartVoting
    \/ RequestNextRound
    \/ RequestEndVoting
    \/ RequestPlayAgain
    \/ KickPlayer
    \/ SubmitVote
    \/ GuessTimeout
    \/ RateLimit

Spec == Init /\ [][Next]_vars

\* a lobby that create-session, the joins of the other identities and the
\* host's settings have filled: identity i on connection i, one more
\* connection not yet made
lobbyOf(n, count) ==
    [newRoom(1) EXCEPT
        !.players = [i \in 1..n |-> [id |-> i, isHost |-> (i = 1),
                                     eliminated |-> FALSE]],
        !.impostorCount = count,
        !.selectedCategory = "Animals"]

\* the lobby with its first n identities in it, each on its own connection;
\* the connection of an identity outside the room has come and gone, the
\* spare connections are not made yet
InitLobby(n) ==
    /\ now = 0
    /\ \E count \in {1, 2} :
          rooms = [c \in CodePool |-> IF c = AAAA THEN lobbyOf(n, count) ELSE NoRoom]
    /\ playerSockets = [p \in Ids |-> IF p <= n THEN p ELSE NoSock]
    /\ socks = [s \in Sockets |->
                  IF s <= n
                  THEN [st |-> "open", owner |-> s, playerId |-> s,
                        roomCode |-> AAAA, joined |-> {AAAA}]
                  ELSE IF s <= NumIds
                  THEN [freshSocket EXCEPT !.st = "closed", !.owner = s]
                  ELSE freshSocket]

\* the play of one room with a place left in it
InitGame == InitLobby(MAX_PLAYERS_PER_ROOM - 1)

NextGame ==
    \/ Disconnect
    \/ StartGameInOrder
    \/ SubmitWordGuess
    \/ RequestStartVoting
    \/ RequestNextRound
    \/ RequestEndVoting
    \/ RequestPlayAgain
    \/ KickPlayer
    \/ SubmitVote
    \/ GuessTimeout
    \/ RateLimit

SpecGame == InitGame /\ [][NextGame]_vars

\* connections coming and going around the play of one room with two places
\* left in it
InitConn == InitLobby(MAX_PLAYERS_PER_ROOM - 2)

NextConn ==
    \/ Connect
    \/ Reconnect
    \/ NextGame

SpecConn == InitConn /\ [][NextConn]_vars

\* the same with the timers running: a timer that stays armed runs out
\* (setTimeout fires after IMPOSTOR_GUESS_TIMEOUT unless clearTimeout came first)
SpecConnFair == SpecConn /\ \A code \in CodePool : WF_vars(GuessTimeoutOf(code))

\* the rounds of voting of one full room
InitVote == InitLobby(MAX_PLAYERS_PER_ROOM)

NextVote ==
    \/ StartGameInOrder
    \/ RequestStartVoting
    \/ RequestEndVoting
    \/ KickPlayer
    \/ SubmitVote
    \/ RequestNextRound

SpecVote == InitVote /\ [][NextVote]_vars

----------------------------------------------------------------------------
(* Notions the properties are stated in *)

Rooms == {c \in CodePool : rooms[c] # NoRoom}

\* the notifications of one type among those a handler emitted
Sent(G, type) == {G.out[i] : i \in {j \in DOMAIN G.out : G.out[j].type = type}}

\* the winners a handler declared for a room
Winners(G, c) == {m.winner : m \in {x \in Sent(G, "gameEnded") : x.room = c}}

\* how many game-ended notifications a handler emitted for a room
EndedCount(G, c) ==
    Cardinality({j \in DOMAIN G.out :
                    G.out[j].type = "gameEnded" /\ G.out[j].room = c})

Members(room) == IdsOf(room.players)

Eliminated(room) ==
    {room.players[i].id : i \in {j \in DOMAIN room.players : room.players[j].eliminated}}

Alive(room) == Members(room) \ Eliminated(room)

AliveOfRole(room, role) == {p \in Alive(room) : room.roles[p] = role}

\* the players a handler's result flags eliminated that were not flagged before
NewlyEliminated(before, after) == Eliminated(after) \ Eliminated(before)

----------------------------------------------------------------------------
(* C1: a tally in the voting phase eliminates at most one player, and it    *)
(* eliminates a player exactly when one non-eliminated player alone holds   *)
(* the largest number of ballots and that number is above zero; that player *)
(* is the one eliminated.  Ballots naming anybody who is not a              *)
(* non-eliminated member count for nobody.                                  *)

\* the ballots for p, counted over the whole ballot map
BallotsFor(room, p) == Cardinality({v \in Ids : room.votes[v] = p})

\* the non-eliminated players nobody has more ballots than, when they have any
TopVoted(room) ==
    {p \in Alive(room) :
        /\ BallotsFor(room, p) > 0
        /\ \A q \in Alive(room) : BallotsFor(room, q) <= BallotsFor(room, p)}

TallyOutcomeOK(c) ==
    LET before == rooms[c]
        after == tallyVotes(Here, c).rooms[c]
        gone == NewlyEliminated(before, after)
    IN  /\ Cardinality(gone) <= 1
        /\ (gone # {}) <=> (Cardinality(TopVoted(before)) = 1)
        /\ gone \subseteq TopVoted(before)
        /\ Members(after) = Members(before)
        /\ Eliminated(before) \subseteq Eliminated(after)

C1_TallyEliminatesUniqueMax ==
    \A c \in Rooms : rooms[c].phase = "voting" => TallyOutcomeOK(c)

\* a ballot names a player who has left, and the tally eliminates the one
\* player with the most ballots
C1_Witness ==
    \E c \in Rooms :
        /\ rooms[c].phase = "voting"
        /\ \E v \in Ids : rooms[c].votes[v] # NoId
                          /\ rooms[c].votes[v] \notin Alive(rooms[c])
        /\ Cardinality(NewlyEliminated(rooms[c], tallyVotes(Here, c).rooms[c])) = 1

----------------------------------------------------------------------------
(* Win conditions at the points that evaluate them *)

\* what a handler's result G shows for room c when the win conditions were
\* evaluated at phase `at`: the winner the counts of the non-eliminated
\* require, at most one of them, and the phase left alone without one
WinOutcomeOK(G, c, at) ==
    LET room == G.rooms[c]
        imp == Cardinality(AliveOfRole(room, "impostor"))
        crew == Cardinality(AliveOfRole(room, "crew"))
        w == Winners(G, c)
    IN  /\ ("impostor" \in w) <=> (imp >= crew)
        /\ ("crew" \in w) <=> (imp = 0)
        /\ ~("impostor" \in w /\ "crew" \in w)
        /\ EndedCount(G, c) <= 1
        /\ w = {} => room.phase = at
        /\ w # {} => room.phase = "ended"

\* a tally that does not open the last-chance guess
TallyWinOK(c) ==
    LET G == tallyVotes(Here, c)
    IN  ~G.rooms[c].pendingImpostorGuess => WinOutcomeOK(G, c, "results")

\* the host's connection s removes player t from room c in mid-game
IsMidGameKick(c, s, t) ==
    /\ rooms[c].phase \notin {"lobby", "ended"}
    /\ socks[s].st = "open"
    /\ t \in Members(rooms[c])
    /\ t \notin Members(kickPlayer(Here, s, t).rooms[c])

(* C2 as stated: after a tally that does not enter the guess sub-state and  *)
(* after every mid-game kick, impostors are declared the winner exactly     *)
(* when the non-eliminated impostors are at least as many as the            *)
(* non-eliminated crew, crew exactly when no impostor is left, never both,  *)
(* and without a winner the phase stays as it was.                          *)
C2_AsStated ==
    \A c \in Rooms :
        /\ rooms[c].phase = "voting" => TallyWinOK(c)
        /\ \A s \in Sockets, t \in Ids :
              IsMidGameKick(c, s, t)
                  => WinOutcomeOK(kickPlayer(Here, s, t), c, rooms[c].phase)

(* C2: the same, with the mid-game kicks taken while no last-chance guess   *)
(* is pending: a kick during the guess sub-state evaluates nothing.         *)
C2_WinConditions ==
    \A c \in Rooms :
        /\ rooms[c].phase = "voting" => TallyWinOK(c)
        /\ \A s \in Sockets, t \in Ids :
              IsMidGameKick(c, s, t) /\ ~rooms[c].pendingImpostorGuess
                  => WinOutcomeOK(kickPlayer(Here, s, t), c, rooms[c].phase)

\* a mid-game kick after which the game goes on, in a room where a tally has
\* already eliminated somebody without deciding the game
C2_Witness ==
    \E c \in Rooms : \E s \in Sockets, t \in Ids :
        /\ IsMidGameKick(c, s, t)
        /\ ~rooms[c].pendingImpostorGuess
        /\ Winners(kickPlayer(Here, s, t), c) = {}
        /\ kickPlayer(Here, s, t).rooms[c].phase = rooms[c].phase

\* a kick during the guess sub-state: no impostor is left and nobody wins
C2_KickWhilePending ==
    \E c \in Rooms : \E s \in Sockets, t \in Ids :
        /\ IsMidGameKick(c, s, t)
        /\ rooms[c].pendingImpostorGuess
        /\ Winners(kickPlayer(Here, s, t), c) = {}

----------------------------------------------------------------------------
(* Resolution of the last-chance guess *)

Pending(c) == rooms[c].pendingImpostorGuess

\* the connections that still carry room c in their roomCode
ConnectionsOf(c) == {s \in Sockets : isLive(Here, s) /\ socks[s].roomCode = c}

\* what the three triggers do to a room with no guess pending: nothing
TriggersAreNoOps(c) ==
    /\ \A s \in ConnectionsOf(c), guess \in GuessInputs :
          LET G == submitWordGuess(Here, s, guess)
          IN  EndedCount(G, c) = 0 /\ G.rooms = rooms
    /\ LET G == guessTimeoutFires(Here, c)
       IN  /\ EndedCount(G, c) = 0
           /\ G.rooms[c] = [rooms[c] EXCEPT !.guessTimeout = "fired"]
    /\ \A s \in ConnectionsOf(c) :
          LET G == onDisconnect(Here, s)
          IN  /\ EndedCount(G, c) = 0
              /\ rooms[c].phase # "lobby" => G.rooms = rooms

\* the guesser's connections
GuesserConnections(c) ==
    {s \in ConnectionsOf(c) : socks[s].playerId = rooms[c].eliminatedImpostorId}

IsGuess(guess) == guess # NotAString /\ Len(guess) <= MAX_WORD_LENGTH

\* what a trigger's result shows when it has resolved the guess of room c
ResolvedOnce(G, c) ==
    /\ EndedCount(G, c) = 1
    /\ ~G.rooms[c].pendingImpostorGuess
    /\ G.rooms[c].phase = "ended"

(* C3: a pending guess is resolved exactly once.  Each of the three         *)
(* triggers (the guesser's submission, the timer, the guesser's disconnect) *)
(* resolves a pending guess with one game-ended notification and clears the *)
(* pending flag; on a room with no guess pending each of them is a no-op:   *)
(* no game-ended notification, the phase and the rest of the room as the    *)
(* first resolution left them.                                              *)
C3_GuessResolvedOnce ==
    \A c \in Rooms :
        /\ ~Pending(c) => TriggersAreNoOps(c)
        /\ Pending(c) =>
              /\ \A s \in GuesserConnections(c) :
                    /\ ResolvedOnce(onDisconnect(Here, s), c)
                    /\ \A guess \in GuessInputs :
                          IsGuess(guess)
                              => ResolvedOnce(submitWordGuess(Here, s, guess), c)
              /\ ResolvedOnce(guessTimeoutFires(Here, c), c)

\* a guess has been resolved (the last impostor is voted out and the game is
\* over) and the guesser is still connected, so that every trigger can recur
C3_Witness ==
    \E c \in Rooms :
        /\ rooms[c].phase = "ended"
        /\ ~Pending(c)
        /\ AliveOfRole(rooms[c], "impostor") = {}
        /\ \E s \in ConnectionsOf(c) :
              /\ socks[s].playerId \in Eliminated(rooms[c])
              /\ rooms[c].roles[socks[s].playerId] = "impostor"

----------------------------------------------------------------------------
(* Entry into the last-chance guess *)

\* the tally of room c votes out an impostor and leaves none in play
TallyTakesLastImpostor(c) ==
    LET after == tallyVotes(Here, c).rooms[c]
    IN  /\ \E p \in NewlyEliminated(rooms[c], after) : rooms[c].roles[p] = "impostor"
        /\ AliveOfRole(after, "impostor") = {}

\* what the tally of room c does about the guess sub-state
TallyEntryOK(c) ==
    LET G == tallyVotes(Here, c)
        after == G.rooms[c]
    IN  IF TallyTakesLastImpostor(c)
        THEN /\ after.pendingImpostorGuess
             /\ NewlyEliminated(rooms[c], after) = {after.eliminatedImpostorId}
             /\ after.phase = "results"
             /\ Winners(G, c) = {}
        ELSE /\ ~after.pendingImpostorGuess
             /\ WinOutcomeOK(G, c, "results")

\* a step that sets the pending flag of room c is a tally that voted out the
\* last impostor
EntryIsByTally(c) ==
    (rooms'[c] # NoRoom /\ rooms'[c].pendingImpostorGuess
     /\ ~rooms[c].pendingImpostorGuess)
        => /\ rooms[c].phase = "voting"
           /\ rooms'[c].phase = "results"
           /\ NewlyEliminated(rooms[c], rooms'[c]) = {rooms'[c].eliminatedImpostorId}
           /\ rooms'[c].roles[rooms'[c].eliminatedImpostorId] = "impostor"
           /\ AliveOfRole(rooms'[c], "impostor") = {}

(* C4: a tally that eliminates an impostor and leaves no impostor in play   *)
(* opens the guess sub-state (pending flag set, the eliminated player the   *)
(* guesser, phase results) and declares no winner; every other tally goes   *)
(* on to the win conditions, and no other step sets the pending flag.       *)
C4_GuessEntry ==
    [][\A c \in Rooms :
          /\ rooms[c].phase = "voting" => TallyEntryOK(c)
          /\ EntryIsByTally(c)]_vars

\* the guess sub-state just entered: the guesser is the eliminated impostor
C4_Witness ==
    \E c \in Rooms :
        /\ Pending(c)
        /\ rooms[c].phase = "results"
        /\ rooms[c].guessTimeout = "armed"
        /\ rooms[c].eliminatedImpostorId \in Eliminated(rooms[c])
        /\ rooms[c].roles[rooms[c].eliminatedImpostorId] = "impostor"

----------------------------------------------------------------------------
(* Outcome of the last-chance guess *)

\* the submissions that spell a word of the category, letter case and
\* surrounding blanks aside
SpellingsOf(word) ==
    IF word = Dog THEN {<<"d", "o", "g">>, <<" ", "D", "O", "G", " ">>}
    ELSE IF word = Cat THEN {<<"c", "a", "t">>}
    ELSE {}

\* a trigger's result has resolved the guess of room c for `winner`
ResolvedFor(G, c, winner) ==
    /\ Winners(G, c) = {winner}
    /\ EndedCount(G, c) = 1
    /\ ~G.rooms[c].pendingImpostorGuess
    /\ G.rooms[c].eliminatedImpostorId = NoId
    /\ G.rooms[c].guessTimeout = "null"
    /\ G.rooms[c].phase = "ended"

\* a handler's result has left the guess of room c open
StillPending(G, c) ==
    /\ Winners(G, c) = {}
    /\ G.rooms[c] = rooms[c]

(* C5: resolving a pending guess declares the impostors the winner exactly  *)
(* when the guesser submitted the secret word; a wrong submission of the    *)
(* guesser, the timer and the guesser's disconnect declare the crew; every  *)
(* resolution clears the pending flag and the guesser, cancels the timer    *)
(* and ends the game.  Submissions of anybody else, submissions that are no *)
(* guess, and other players' disconnects resolve nothing.                   *)
C5_GuessOutcome ==
    \A c \in Rooms : Pending(c) =>
        /\ \A s \in ConnectionsOf(c), guess \in GuessInputs :
              LET G == submitWordGuess(Here, s, guess)
              IN  IF s \in GuesserConnections(c) /\ IsGuess(guess)
                  THEN IF guess \in SpellingsOf(rooms[c].secretWord)
                       THEN ResolvedFor(G, c, "impostor")
                       ELSE ResolvedFor(G, c, "crew")
                  ELSE StillPending(G, c)
        /\ ResolvedFor(guessTimeoutFires(Here, c), c, "crew")
        /\ \A s \in ConnectionsOf(c) :
              IF s \in GuesserConnections(c)
              THEN ResolvedFor(onDisconnect(Here, s), c, "crew")
              ELSE StillPending(onDisconnect(Here, s), c)

\* a guess is pending and the guesser, still connected, wins it with the
\* word in other letter case and with blanks around it
C5_Witness ==
    \E c \in Rooms : \E s \in GuesserConnections(c) :
        /\ Pending(c)
        /\ ResolvedFor(submitWordGuess(Here, s, <<" ", "D", "O", "G", " ">>),
                       c, "impostor")
        /\ ResolvedFor(submitWordGuess(Here, s, <<"c", "a", "t">>), c, "crew")

----------------------------------------------------------------------------
(* C6: the guess sub-state is time-boxed.  With the armed timer running out *)
(* unless it is cancelled, a room whose pending flag is set gets it cleared *)
(* again (the game ended or reset) or is removed, whatever else happens in  *)
(* between.                                                                 *)
C6_PendingEnds ==
    \A c \in CodePool :
        (rooms[c] # NoRoom /\ rooms[c].pendingImpostorGuess)
            ~> (rooms[c] = NoRoom \/ ~rooms[c].pendingImpostorGuess)

\* a guess is pending with its timer armed, and the guesser is gone for good,
\* so that only the timer is left to resolve it
C6_Witness ==
    \E c \in Rooms :
        /\ Pending(c)
        /\ rooms[c].guessTimeout = "armed"
        /\ GuesserConnections(c) = {}

----------------------------------------------------------------------------
(* Roles dealt at the start of a game *)

WithRole(room, role) == {p \in Ids : room.roles[p] = role}

RolesDealtOK(room) ==
    /\ WithRole(room, "impostor") \cup WithRole(room, "crew") = Members(room)
    /\ \A p \in Ids \ Members(room) : room.roles[p] = "none"
    /\ Cardinality(WithRole(room, "impostor")) = room.impostorCount
    /\ Cardinality(WithRole(room, "crew"))
          = Cardinality(Members(room)) - room.impostorCount
    /\ WithRole(room, "impostor") # {}
    /\ WithRole(room, "crew") # {}

\* the step is a successful start-game of room c
GameStarts(c) ==
    /\ rooms[c].phase = "lobby"
    /\ rooms'[c] # NoRoom
    /\ rooms'[c].phase = "discussion"

(* C7: after every successful start-game the role map gives a role to       *)
(* exactly the players of the room, impostorCount of them are impostors and *)
(* the others crew, with at least one of each.                              *)
C7_RolesDealt ==
    [][\A c \in Rooms : GameStarts(c) => RolesDealtOK(rooms'[c])]_vars

\* a game started with two impostors among the players of the room
C7_Witness ==
    \E c \in Rooms :
        /\ rooms[c].phase = "discussion"
        /\ rooms[c].impostorCount = 2
        /\ Eliminated(rooms[c]) = {}
        /\ RolesDealtOK(rooms[c])

----------------------------------------------------------------------------
(* Who is told the secret word *)

OpenSockets == {s \in Sockets : socks[s].st = "open"}

\* the private role notifications of a start-game of room c
RoleNotesOK(G, c) ==
    LET room == G.rooms[c]
        notes == Sent(G, "roleAssigned")
    IN  /\ \A m \in notes :
              /\ m.room = c
              /\ m.player \in Members(room)
              /\ m.to = playerSockets[m.player]
              /\ m.role = room.roles[m.player]
              /\ m.role = "crew" => m.word = room.secretWord /\ m.word # NoWord
              /\ m.role = "impostor" => m.word = NoWord
              /\ m.word # NoWord => room.roles[socks[m.to].playerId] # "impostor"
        /\ \A p \in Members(room) :
              isLive(Here, playerSockets[p]) => \E m \in notes : m.player = p

\* the snapshot a reconnect as pid hands out
SnapshotWordOK(s, pid, code, atOnce) ==
    \A m \in Sent(reconnect(Here, s, pid, code, atOnce), "reconnectSuccess") :
        LET room == rooms[m.roomCode]
        IN  /\ m.to = s
            /\ m.role = room.roles[pid]
            /\ (m.word # NoWord) <=> (room.roles[pid] = "crew")
            /\ m.word # NoWord => m.word = room.secretWord

(* C8: the secret word is not sent to an impostor.  At start-game every     *)
(* crew member's private role notification carries the same non-empty       *)
(* secret word and every impostor's carries none; the snapshot of a         *)
(* reconnect carries the word exactly when the reconnecting identity is     *)
(* crew.                                                                    *)
C8_WordOnlyToCrew ==
    /\ \A s \in OpenSockets :
          roomOfSocket(s) # NoRoom /\ startRefusal(Here, s) = ""
              => \A wordPick \in wordPicks(s), roleShuffle \in shuffles(s),
                    turnShuffle \in unshuffled(s) :
                    RoleNotesOK(startGame(Here, s, wordPick, roleShuffle, turnShuffle),
                                socks[s].roomCode)
    /\ \A s \in OpenSockets, pid \in Ids, code \in CodeInputs, atOnce \in BOOLEAN :
          SnapshotWordOK(s, pid, code, atOnce)

\* a game is on and undecided: a reconnect hands the word to a crew member
\* and none to an impostor
C8_Witness ==
    \E c \in Rooms : \E s \in OpenSockets, crew \in Ids, impostor \in Ids :
        /\ rooms[c].phase = "discussion"
        /\ rooms[c].roles[crew] = "crew"
        /\ rooms[c].roles[impostor] = "impostor"
        /\ \E m \in Sent(reconnect(Here, s, crew, c, TRUE), "reconnectSuccess") :
              m.word = rooms[c].secretWord /\ m.word # NoWord
        /\ \E m \in Sent(reconnect(Here, s, impostor, c, TRUE), "reconnectSuccess") :
              m.word = NoWord

----------------------------------------------------------------------------
(* Dropping out and coming back *)

\* s is the connection member p of room c is on
IsConnectionOf(s, p, c) ==
    /\ s \in OpenSockets
    /\ socks[s].playerId = p
    /\ socks[s].roomCode = c
    /\ playerSockets[p] = s
    /\ p \in Members(rooms[c])

\* s2 is another connection of the client that holds identity p
IsNextConnectionOf(s2, s, p) == s2 # s /\ socks[s2].owner = p

\* connection s drops, then connection s2 reconnects as p to room c
BackAgain(s, s2, p, c, atOnce) == reconnect(onDisconnect(Here, s), s2, p, c, atOnce)

\* the snapshot of the reconnect shows what room c held for p before the drop
Restored(s, s2, p, c, atOnce) ==
    LET room == rooms[c]
        player == room.players[findPlayerInRoom(room, p)]
        G == BackAgain(s, s2, p, c, atOnce)
    IN  /\ Sent(G, "reconnectFailed") = {}
        /\ \E m \in Sent(G, "reconnectSuccess") :
              /\ m.to = s2
              /\ m.phase = room.phase
              /\ m.role = room.roles[p]
              /\ m.word = (IF room.roles[p] = "crew" THEN room.secretWord ELSE NoWord)
              /\ m.eliminated = player.eliminated

\* a code that is not four letters, whatever their case
Malformed(code) == code \in {<<"A", "1", "A", "A">>, NoCode}

\* the four letters of a code in upper case
Named(code) == IF code = <<"a", "a", "a", "a">> THEN AAAA ELSE code

\* a reconnect that names a malformed code, no room, or no member of the room
\* fails and changes nothing
BadReconnectsFail ==
    \A s \in OpenSockets, pid \in Ids \cup {NoId}, code \in CodeInputs,
       atOnce \in BOOLEAN :
        (\/ Malformed(code)
         \/ rooms[Named(code)] = NoRoom
         \/ pid \notin Members(rooms[Named(code)]))
            => LET G == reconnect(Here, s, pid, code, atOnce)
               IN  /\ Sent(G, "reconnectSuccess") = {}
                   /\ \E m \in Sent(G, "reconnectFailed") : m.to = s
                   /\ G.rooms = rooms
                   /\ G.ps = playerSockets
                   /\ G.socks = socks

\* p is the guesser of the pending guess of room c
IsGuesser(p, c) == Pending(c) /\ rooms[c].eliminatedImpostorId = p

(* C9 as stated: in every phase a member who drops and reconnects gets the  *)
(* phase, role, word (if crew) and elimination flag of before the drop; a   *)
(* reconnect naming a malformed code, an unknown room or a non-member fails *)
(* and changes nothing.                                                     *)
C9_AsStated ==
    /\ \A c \in Rooms : \A p \in Ids, s \in Sockets, s2 \in OpenSockets,
                           atOnce \in BOOLEAN :
          (IsConnectionOf(s, p, c) /\ IsNextConnectionOf(s2, s, p))
              => Restored(s, s2, p, c, atOnce)
    /\ BadReconnectsFail

(* C9: the same outside the lobby and for a member who is not the guesser   *)
(* of a pending guess.  (In the lobby the drop removes the member, and the  *)
(* guesser's drop ends the game.)                                           *)
C9_ReconnectRestores ==
    /\ \A c \in Rooms : \A p \in Ids, s \in Sockets, s2 \in OpenSockets,
                           atOnce \in BOOLEAN :
          (IsConnectionOf(s, p, c) /\ IsNextConnectionOf(s2, s, p)
           /\ rooms[c].phase # "lobby" /\ ~IsGuesser(p, c))
              => Restored(s, s2, p, c, atOnce)
    /\ BadReconnectsFail

\* in the voting phase a crew member has a second connection open to come
\* back on, and coming back on it restores what the room held
C9_Witness ==
    \E c \in Rooms : \E p \in Ids, s \in Sockets, s2 \in OpenSockets :
        /\ IsConnectionOf(s, p, c)
        /\ IsNextConnectionOf(s2, s, p)
        /\ rooms[c].phase = "voting"
        /\ rooms[c].roles[p] = "crew"
        /\ Restored(s, s2, p, c, TRUE)

----------------------------------------------------------------------------
(* One connection per identity *)

\* the open connections that carry identity p
BoundTo(p) == {s \in OpenSockets : socks[s].playerId = p}

(* C10: every identity is bound to at most one live connection: a handler   *)
(* that sets a connection's identity leaves no other open connection with   *)
(* that identity.                                                           *)
C10_OneConnectionPerIdentity ==
    \A p \in Ids : Cardinality(BoundTo(p)) <= 1

\* a connection whose client shows the home screen: it is in no room, or its
\* room is gone, or its identity was taken out of the room
atHome(s) ==
    IF roomOfSocket(s) = NoRoom THEN TRUE
    ELSE findPlayerInRoom(roomOfSocket(s), socks[s].playerId) = 0

\* createSession sent from the home screen
CreateSessionAtHome ==
    \E s \in Sockets :
        /\ canSend(s)
        /\ atHome(s)
        /\ \E pid \in sentId(s), name \in NameInputs, code \in generateCodeResults :
              \E atOnce \in closings(pid) :
                 Commit(createSession(Here, s, pid, name, code, atOnce))

\* joinSession sent from the home screen
JoinSessionAtHome ==
    \E s \in Sockets :
        /\ canSend(s)
        /\ atHome(s)
        /\ \E pid \in sentId(s), name \in NameInputs, rawCode \in CodeInputs :
              \E atOnce \in closings(pid) :
                 Commit(joinSession(Here, s, pid, name, rawCode, atOnce))

\* startGame with the word drawn at random and both shuffles leaving the
\* players in their order
StartGameUnshuffled ==
    \E s \in Sockets :
        /\ canSend(s)
        /\ \E wordPick \in wordPicks(s), roleShuffle \in unshuffled(s),
              turnShuffle \in unshuffled(s) :
              Commit(startGame(Here, s, wordPick, roleShuffle, turnShuffle))

\* rooms made and joined from the home screen around one full room
NextLobby ==
    \/ Connect
    \/ CreateSessionAtHome
    \/ JoinSessionAtHome
    \/ KickPlayer
    \/ StartGameUnshuffled

\* one full room in the lobby, its impostor count as createSession set it
InitJoin == InitVote /\ rooms[AAAA].impostorCount = MIN_IMPOSTORS

SpecLobby == InitJoin /\ [][NextLobby]_vars

\* the orders of the places of the players that shuffleArray returns
turnShuffles(s) ==
    IF roomOfSocket(s) # NoRoom /\ startRefusal(Here, s) = ""
    THEN {shuffleArray([i \in DOMAIN roomOfSocket(s).players |-> i], d) :
            d \in Draws(Len(roomOfSocket(s).players))}
    ELSE {<<>>}

\* startGame with the word drawn at random, the shuffle for the roles leaving
\* the players in their order and the shuffle for the turn order run on its
\* draws
StartGameTurns ==
    \E s \in Sockets :
        /\ canSend(s)
        /\ \E wordPick \in wordPicks(s), roleShuffle \in unshuffled(s),
              turnShuffle \in turnShuffles(s) :
              Commit(startGame(Here, s, wordPick, roleShuffle, turnShuffle))

\* the turn order through the rounds of one full room
NextTurns ==
    \/ StartGameTurns
    \/ RequestStartVoting
    \/ SubmitVote
    \/ RequestEndVoting
    \/ RequestNextRound
    \/ KickPlayer

SpecTurns == InitJoin /\ [][NextTurns]_vars

\* Date.now() moves on
Tick ==
    /\ now < MaxTime
    /\ now' = now + 1
    /\ UNCHANGED <<rooms, playerSockets, socks>>

\* the interval timer of cleanupInactiveRooms fires
Sweep == Commit(cleanupInactiveRooms(Here))

\* one room and the rooms made from the home screen, while time passes and the
\* sweep runs
NextSweep ==
    \/ Connect
    \/ CreateSessionAtHome
    \/ StartGameUnshuffled
    \/ Tick
    \/ Sweep

SpecSweep == InitGame /\ [][NextSweep]_vars

\* the host setting up and starting the game of one room
NextSetup ==
    \/ SetImpostorCount
    \/ SelectMode
    \/ SelectCategory
    \/ SubmitCustomWords
    \/ KickPlayer
    \/ StartGame

SpecSetup == InitGame /\ [][NextSetup]_vars

\* players leaving the lobby of one room and coming back to it
NextRejoin ==
    \/ Connect
    \/ Disconnect
    \/ JoinSessionAtHome
    \/ KickPlayer

SpecRejoin == InitGame /\ [][NextRejoin]_vars

----------------------------------------------------------------------------
(* The host of a room *)

\* the players of a room that carry the host flag
Hosts(room) ==
    {room.players[i].id : i \in {j \in DOMAIN room.players : room.players[j].isHost}}

(* C11: every room has exactly one host, and the host identity of the room  *)
(* is a player of its player list, whatever joins, disconnects, kicks,      *)
(* reconnects and resets came before.                                       *)
C11_OneHostInRoom ==
    \A c \in Rooms :
        /\ rooms[c].hostId \in Members(rooms[c])
        /\ Cardinality(Hosts(rooms[c])) = 1

----------------------------------------------------------------------------
(* The impostor count of an active game *)

IsActive(room) == room.phase \in {"discussion", "voting", "results"}

----------------------------------------------------------------------------
(* The ballot map *)

Voters(room) == voteKeys(room.votes)

(* C13 as stated: in every phase, each ballot has a non-eliminated member   *)
(* of the room as its voter and a non-eliminated member as its target.      *)
C13_AsStated ==
    \A c \in Rooms : \A v \in Voters(rooms[c]) :
        /\ v \in Alive(rooms[c])
        /\ rooms[c].votes[v] \in Alive(rooms[c])

\* what submitVote on connection s for target t does to the ballots of room
\* c: nothing, or one entry of a non-eliminated member for a non-eliminated
\* member
BallotAcceptedOK(c, s, t) ==
    LET before == rooms[c]
        after == submitVote(Here, s, t).rooms[c]
        voter == socks[s].playerId
    IN  after.votes # before.votes
            => /\ voter \in Alive(before)
               /\ t \in Alive(before)
               /\ after.votes = [before.votes EXCEPT ![voter] = t]

(* C13: a ballot is entered only for a non-eliminated member voting for a   *)
(* non-eliminated member; while the phase is voting every voter is a        *)
(* non-eliminated member and no target is an eliminated member, though a    *)
(* target may have been kicked since.  After a tally the ballots stay, the  *)
(* eliminated player's among them.                                          *)
C13_Ballots ==
    \A c \in Rooms :
        /\ \A s \in ConnectionsOf(c), t \in Ids : BallotAcceptedOK(c, s, t)
        /\ rooms[c].phase = "voting"
              => \A v \in Voters(rooms[c]) :
                    /\ v \in Alive(rooms[c])
                    /\ rooms[c].votes[v] \notin Eliminated(rooms[c])

\* voting in a round after an elimination, with a ballot already cast
C13_Witness ==
    \E c \in Rooms :
        /\ rooms[c].phase = "voting"
        /\ Eliminated(rooms[c]) # {}
        /\ Voters(rooms[c]) # {}

----------------------------------------------------------------------------
(* Requests out of phase or not from the host *)

\* what a handler's result G shows when it refused connection s: no room
\* changed, an error was emitted, and everything emitted went to s alone
Refused(G, s) ==
    /\ G.rooms = rooms
    /\ Sent(G, "gameError") # {}
    /\ \A i \in DOMAIN G.out : G.out[i].to = s

\* what a handler's result G shows when it ignored the request
Ignored(G) == G.rooms = rooms /\ G.out = <<>>

\* the identity requestPlayAgain acts for
PlayAgainIdentity(s, dataId) == IF dataId # NoId THEN dataId ELSE socks[s].playerId

\* the host-only transitions of room c asked for on connection s, each out of
\* its phase or not by the host
TransitionsRefused(c, s) ==
    LET room == rooms[c]
        notHost == room.hostId # socks[s].playerId
    IN  /\ notHost \/ room.phase # "lobby"
            => \A wordPick \in wordPicks(s), roleShuffle \in shuffles(s),
                  turnShuffle \in shuffles(s) :
                  Refused(startGame(Here, s, wordPick, roleShuffle, turnShuffle), s)
        /\ notHost \/ room.phase # "discussion"
            => Refused(requestStartVoting(Here, s), s)
        /\ notHost \/ room.phase # "voting"
            => Refused(requestEndVoting(Here, s), s)
        /\ notHost \/ room.phase # "results"
            => Refused(requestNextRound(Here, s), s)
        /\ \A dataCode \in {NoCode, c}, dataId \in sentId(s) :
              /\ PlayAgainIdentity(s, dataId) # NoId
              /\ \/ room.hostId # PlayAgainIdentity(s, dataId)
                 \/ room.phase # "ended"
              => Refused(requestPlayAgain(Here, s, dataCode, dataId), s)
        /\ notHost => \A t \in Ids : Refused(kickPlayer(Here, s, t), s)

(* C14 as stated: a host-only transition asked for in the wrong phase or    *)
(* not by the host, and a ballot submitted outside the voting phase, are    *)
(* each refused with an error sent to the requester alone, and change no    *)
(* room.                                                                    *)
C14_AsStated ==
    \A c \in Rooms : \A s \in Sockets :
        canSend(s) /\ socks[s].roomCode = c
            => /\ TransitionsRefused(c, s)
               /\ rooms[c].phase # "voting"
                    => \A t \in Ids : Refused(submitVote(Here, s, t), s)

(* C14: a host-only transition asked for in the wrong phase or not by the   *)
(* host is refused with an error sent to the requester alone and changes no *)
(* room; a ballot submitted outside the voting phase changes no room either *)
(* but is ignored without any notification.                                 *)
C14_Rejections ==
    \A c \in Rooms : \A s \in Sockets :
        canSend(s) /\ socks[s].roomCode = c
            => /\ TransitionsRefused(c, s)
               /\ rooms[c].phase # "voting"
                    => \A t \in Ids : Ignored(submitVote(Here, s, t))

\* a connection of a player who is not the host, in a room in discussion
C14_Witness ==
    \E c \in Rooms : \E s \in Sockets :
        /\ canSend(s)
        /\ socks[s].roomCode = c
        /\ socks[s].playerId \in Members(rooms[c]) \ {rooms[c].hostId}
        /\ rooms[c].phase = "discussion"

----------------------------------------------------------------------------
(* The automatic end of voting *)

(* C15: voting ends the instant every non-eliminated player has cast a      *)
(* ballot: no room is in phase voting with a ballot of every non-eliminated *)
(* player in its ballot map, whether the last missing ballot was submitted  *)
(* or its voter was kicked.                                                 *)
C15_VotingEndsWhenAllVoted ==
    \A c \in Rooms :
        rooms[c].phase = "voting" => ~(Alive(rooms[c]) \subseteq Voters(rooms[c]))

----------------------------------------------------------------------------
(* The reset of a room *)

\* a room in the lobby with nothing of a game left in it
Cleared(room) ==
    /\ room.phase = "lobby"
    /\ room.roles = noRoles
    /\ room.votes = noVotes
    /\ room.secretWord = NoWord
    /\ Eliminated(room) = {}
    /\ ~room.pendingImpostorGuess
    /\ room.eliminatedImpostorId = NoId
    /\ room.guessTimeout = "null"

\* the results of every request connection s can make about its room
RoomRequests(s) ==
    {startGame(Here, s, wordPick, roleShuffle, turnShuffle) :
        wordPick \in wordPicks(s), roleShuffle \in shuffles(s),
        turnShuffle \in shuffles(s)}
    \cup {requestStartVoting(Here, s), requestEndVoting(Here, s),
          requestNextRound(Here, s)}
    \cup {requestPlayAgain(Here, s, dataCode, dataId) :
            dataCode \in CodeInputs, dataId \in sentId(s)}
    \cup {kickPlayer(Here, s, t) : t \in Ids \cup {NoId}}
    \cup {submitVote(Here, s, t) : t \in Ids \cup {NoId}}
    \cup {submitWordGuess(Here, s, guess) : guess \in GuessInputs}
    \cup {setImpostorCount(Here, s, count) : count \in CountInputs}
    \cup {selectMode(Here, s, mode) : mode \in ModeInputs}
    \cup {selectCategory(Here, s, categoryName) : categoryName \in CategoryInputs}
    \cup {submitCustomWords(Here, s, lines) : lines \in WordsInputs}

(* C16: from every active phase the host has a request that returns the     *)
(* room to the lobby with roles, secret word, ballots, elimination flags    *)
(* and pending-guess state cleared, and without a winner being declared.    *)
C16_EndRoundEarly ==
    \A c \in Rooms : \A s \in Sockets :
        /\ canSend(s)
        /\ socks[s].roomCode = c
        /\ socks[s].playerId = rooms[c].hostId
        /\ IsActive(rooms[c])
        => \E G \in RoomRequests(s) :
              Cleared(G.rooms[c]) /\ Winners(G, c) = {}


\* the room the request names, or else the room of the connection
PlayAgainRoom(s, dataCode) == IF dataCode # NoCode THEN dataCode ELSE socks[s].roomCode

\* what a reset leaves of a room as it was
KeptByReset(before, after) ==
    /\ IdsOf(after.players) = IdsOf(before.players)
    /\ \A i \in DOMAIN before.players :
          after.players[i].isHost = before.players[i].isHost
    /\ after.hostId = before.hostId
    /\ after.mode = before.mode
    /\ after.impostorCount = before.impostorCount
    /\ after.selectedCategory = before.selectedCategory
    /\ after.customWords = before.customWords

\* the result G of requestPlayAgain on connection s for room c: the room is
\* reset exactly when the request is for the host and the phase is ended, and
\* nothing else happens to any room
PlayAgainOK(G, c, s, dataCode, dataId) ==
    LET asked == /\ PlayAgainRoom(s, dataCode) = c
                 /\ PlayAgainIdentity(s, dataId) # NoId
                 /\ PlayAgainIdentity(s, dataId) = rooms[c].hostId
                 /\ rooms[c].phase = "ended"
    IN  /\ \A d \in CodePool \ {c} : G.rooms[d] = rooms[d]
        /\ IF asked
           THEN /\ Cleared(G.rooms[c])
                /\ KeptByReset(rooms[c], G.rooms[c])
                /\ \E m \in Sent(G, "gameReset") : m.room = c
           ELSE /\ G.rooms[c] = rooms[c]
                /\ Sent(G, "gameReset") = {}

(* C17: play-again succeeds only when requested for the host while the      *)
(* phase is ended; it then sets the phase to lobby, empties roles and       *)
(* ballots, clears the secret word, the elimination flags, the pending      *)
(* guess flag, guesser and timer, and leaves the players, the host, the     *)
(* mode, the impostor count, the selected category and the custom words as  *)
(* they were.                                                               *)
C17_PlayAgain ==
    \A c \in Rooms : \A s \in Sockets :
        canSend(s)
            => \A dataCode \in CodeInputs, dataId \in sentId(s) :
                  PlayAgainRoom(s, dataCode) \in {c, NoCode}
                      => PlayAgainOK(requestPlayAgain(Here, s, dataCode, dataId),
                                     c, s, dataCode, dataId)

\* a room back in the lobby after a game that was played in it
C17_Witness ==
    \E c \in Rooms :
        /\ Cleared(rooms[c])
        /\ rooms[c].hasTurnOrder
        /\ ~rooms[c].started

----------------------------------------------------------------------------
(* Joining a room *)

\* the identities room c gained in the handler result G
Gained(G, c) ==
    IF G.rooms[c] = NoRoom THEN {}
    ELSE Members(G.rooms[c]) \ (IF rooms[c] = NoRoom THEN {} ELSE Members(rooms[c]))

\* the conditions under which joinSession lets pid into room c
MayJoin(c, pid) ==
    /\ c \in Rooms
    /\ rooms[c].phase = "lobby"
    /\ Len(rooms[c].players) < MAX_PLAYERS_PER_ROOM
    /\ pid \notin Members(rooms[c])

\* the result G of joinSession for identity pid and code rawCode: a player
\* list grows only by pid, only in the room named and only when pid may join;
\* a refusal changes no room and reports an error
JoinOK(G, pid, rawCode) ==
    /\ \A c \in CodePool :
          Gained(G, c) # {}
              => /\ Gained(G, c) = {pid}
                 /\ c = toUpperCase(rawCode)
                 /\ MayJoin(c, pid)
    /\ ~MayJoin(toUpperCase(rawCode), pid)
          => G.rooms = rooms /\ Sent(G, "joinError") # {}

\* a name that passes and a name that fails the test of the name
JoinNames == {n \in NameInputs : Len(n) = 2 \/ isValidName(trim(n))}

JoinsOK ==
    \A s \in Sockets :
        canSend(s)
            => \A pid \in sentId(s), name \in JoinNames, rawCode \in CodeInputs :
                \A atOnce \in closings(pid) :
                  JoinOK(joinSession(Here, s, pid, name, rawCode, atOnce),
                         pid, rawCode)

NoIdentityTwice ==
    \A c \in Rooms : Cardinality(Members(rooms[c])) = Len(rooms[c].players)

\* a step in which no room that is out of the lobby gains a player
GrowsInLobbyOnly ==
    \A c \in Rooms :
        rooms[c].phase # "lobby" /\ rooms'[c] # NoRoom
            => Members(rooms'[c]) \subseteq Members(rooms[c])

(* C18: join-session adds the identity to the player list of a room only if *)
(* the room exists, is in the lobby, is not full and does not have the      *)
(* identity already; a refused join changes no room; the members of a room  *)
(* never grow outside the lobby and no identity is twice in a player list.  *)
C18_Join == [](JoinsOK /\ NoIdentityTwice) /\ [][GrowsInLobbyOnly]_vars

\* a full room whose last player came in by joining, with a room out of the
\* lobby and a connection on the home screen
C18_Witness ==
    /\ \E c \in Rooms :
          /\ Len(rooms[c].players) = MAX_PLAYERS_PER_ROOM
          /\ rooms[c].players[MAX_PLAYERS_PER_ROOM].id # MAX_PLAYERS_PER_ROOM
    /\ \E c \in Rooms : rooms[c].phase # "lobby"
    /\ \E s \in Sockets : canSend(s) /\ atHome(s)

----------------------------------------------------------------------------
(* The limits on rooms and players *)

RoomsBounded ==
    /\ getRoomCount(Here) <= MAX_ROOMS
    /\ \A c \in Rooms : Len(rooms[c].players) <= MAX_PLAYERS_PER_ROOM

\* the codes under which the handler result G has a room that was not there
Made(G) == {c \in CodePool : rooms[c] = NoRoom /\ G.rooms[c] # NoRoom}

\* what the disconnect handler of the previous live connection of pid, which
\* createSession closes, does to room d
LeftBySuperseded(G, pid, d) ==
    LET old == playerSockets[pid]
    IN  /\ isLive(Here, old)
        /\ socks[old].roomCode = d
        /\ G.rooms[d] = onDisconnect(Here, old).rooms[d]

\* the result G of createSession with generateCode returning code: no room
\* is made at capacity, and a room is made only under a code no room has
CreateMakesRoom(G, pid, code) ==
    /\ getRoomCount(Here) >= MAX_ROOMS
          => G.rooms = rooms /\ Sent(G, "joinError") # {}
    /\ Made(G) \subseteq {code}
    /\ \A c \in Made(G) : G.rooms[c] = newRoom(pid)
    /\ Made(G) = {} => G.rooms = rooms

CreateInputsOK(P(_, _, _)) ==
    \A s \in Sockets :
        canSend(s)
            => \A pid \in sentId(s), name \in JoinNames, code \in generateCodeResults :
                \A atOnce \in closings(pid) :
                  P(createSession(Here, s, pid, name, code, atOnce), pid, code)

CreateAsStated(G, pid, code) ==
    /\ CreateMakesRoom(G, pid, code)
    /\ \A d \in Rooms : G.rooms[d] = rooms[d]

CreateOK(G, pid, code) ==
    /\ CreateMakesRoom(G, pid, code)
    /\ \A d \in Rooms : G.rooms[d] = rooms[d] \/ LeftBySuperseded(G, pid, d)

----------------------------------------------------------------------------
(* The inactivity sweep *)

IsStale(c) == now - rooms[c].lastActivity > ROOM_INACTIVE_TIMEOUT

\* identity p has a live connection that is bound to a room the sweep keeps
BoundToSurvivor(p) ==
    /\ isLive(Here, playerSockets[p])
    /\ socks[playerSockets[p]].playerId = p
    /\ socks[playerSockets[p]].roomCode \in Rooms
    /\ ~IsStale(socks[playerSockets[p]].roomCode)
    /\ p \in Members(rooms[socks[playerSockets[p]].roomCode])

\* the timer of room c is still to fire in G
TimerArmed(G, c) == G.rooms[c] # NoRoom /\ G.rooms[c].guessTimeout = "armed"

\* the result G of the sweep: the stale rooms are gone and their timers with
\* them, the other rooms are as they were, and no binding to a connection in
\* a room that is kept is released
SweepOK(G) ==
    /\ \A c \in Rooms : G.rooms[c] = (IF IsStale(c) THEN NoRoom ELSE rooms[c])
    /\ \A c \in CodePool \ Rooms : G.rooms[c] = NoRoom
    /\ \A c \in Rooms : IsStale(c) => ~TimerArmed(G, c)
    /\ \A p \in Ids :
          /\ G.ps[p] \in {playerSockets[p], NoSock}
          /\ G.ps[p] # playerSockets[p]
                => \E c \in Rooms : IsStale(c) /\ p \in Members(rooms[c])
          /\ BoundToSurvivor(p) => G.ps[p] = playerSockets[p]

(* C20: the sweep removes exactly the rooms whose last activity is older    *)
(* than the timeout and leaves the others unchanged; a removed room has no  *)
(* guess timer left to fire; and the sweep releases only bindings the       *)
(* removed rooms held: the binding of an identity whose live connection is  *)
(* bound to a room that stays is kept.                                      *)
C20_Sweep == SweepOK(cleanupInactiveRooms(Here))

----------------------------------------------------------------------------
(* How players are eliminated and removed *)

\* the players room c loses in a step
Left(c) ==
    Members(rooms[c]) \ (IF rooms'[c] = NoRoom THEN {} ELSE Members(rooms'[c]))

\* a step that sets an elimination flag in room c is a tally of its ballots,
\* asked for by the host or run by the last ballot
EliminatedByTally(c) ==
    (rooms'[c] # NoRoom /\ NewlyEliminated(rooms[c], rooms'[c]) # {})
        => /\ rooms[c].phase = "voting"
           /\ \/ rooms'[c] = tallyVotes(Here, c).rooms[c]
              \/ \E s \in ConnectionsOf(c), t \in Ids :
                    rooms'[c] = submitVote(Here, s, t).rooms[c]

\* the step is the host's kick of the player room c loses
ByKick(c) ==
    \E s \in ConnectionsOf(c), t \in Ids :
        /\ socks[s].playerId = rooms[c].hostId
        /\ Left(c) = {t}
        /\ rooms' = kickPlayer(Here, s, t).rooms

\* the step closes a connection of the player a lobby loses
ByLeavingLobby(c) ==
    /\ rooms[c].phase = "lobby"
    /\ \E s \in ConnectionsOf(c) :
          /\ Left(c) = {socks[s].playerId}
          /\ socks'[s].st = "closed"

\* the step is the last player leaving a lobby, which removes the room
ByLastLeavingLobby(c) ==
    /\ ByLeavingLobby(c)
    /\ Len(rooms[c].players) = 1
    /\ rooms'[c] = NoRoom

(* C21 as stated: an elimination flag is set only by the tally, and a       *)
(* player leaves a player list only by the host's kick or when the last     *)
(* player leaves a lobby; the disconnect of a player who is not the last    *)
(* and a reconnect remove nobody.                                           *)
C21_AsStated ==
    [][\A c \in Rooms :
          /\ EliminatedByTally(c)
          /\ Left(c) # {} => ByKick(c) \/ ByLastLeavingLobby(c)]_vars

(* C21: an elimination flag is set only by the tally, and a player leaves   *)
(* a player list only by the host's kick or when a connection of that       *)
(* player closes while the room is in the lobby, the last player or not,    *)
(* whether the client closed it or a reconnect superseded it; outside the   *)
(* lobby no disconnect and no reconnect removes a player.                   *)
C21_Removal ==
    [][\A c \in Rooms :
          /\ EliminatedByTally(c)
          /\ Left(c) # {} => ByKick(c) \/ ByLeavingLobby(c)]_vars

\* a game in which the tally eliminated a player and a player whose
\* connection closed is still in the player list
C21_Witness ==
    \E c \in Rooms :
        /\ Eliminated(rooms[c]) # {}
        /\ \E s \in Sockets :
              /\ socks[s].st = "closed"
              /\ socks[s].roomCode = c
              /\ socks[s].playerId \in Members(rooms[c])
              /\ playerSockets[socks[s].playerId] = NoSock

----------------------------------------------------------------------------
(* The turn order *)

\* order holds every identity of ids once and nothing else
IsOrderOf(order, ids) ==
    /\ Len(order) = Cardinality(ids)
    /\ {order[i] : i \in DOMAIN order} = ids

\* every run of shuffleArray on n places returns each place once, and every
\* order of the places is returned by some run
ShuffleOK(n) ==
    LET places == [i \in 1..n |-> i]
    IN  /\ \A d \in Draws(n) : IsOrderOf(shuffleArray(places, d), 1..n)
        /\ \A f \in Perms(places) : \E d \in Draws(n) : shuffleArray(places, d) = f

(* C22: at every successful start-game the turn order is a permutation of   *)
(* the player list of the room: every player once and nobody else.          *)
C22_TurnOrderAtStart ==
    [][\A c \in Rooms :
          GameStarts(c)
              => /\ ShuffleOK(Len(rooms[c].players))
                 /\ rooms'[c].hasTurnOrder
                 /\ IsOrderOf(rooms'[c].turnOrder, Members(rooms'[c]))]_vars

\* a game just started whose turn order is not the order of the player list
C22_Witness ==
    \E c \in Rooms :
        /\ rooms[c].phase = "discussion"
        /\ Eliminated(rooms[c]) = {}
        /\ Len(rooms[c].turnOrder) = Len(rooms[c].players)
        /\ \E i \in DOMAIN rooms[c].players :
              rooms[c].turnOrder[i] # rooms[c].players[i].id


\* the identities in a turn order
InOrder(order) == {order[i] : i \in DOMAIN order}

\* order a is order b with some of its entries taken out
IsPruningOf(a, b) == a = SelectSeq(b, LAMBDA p : p \in InOrder(a))

\* while room c is in discussion or voting its turn order holds the
\* non-eliminated players of the room, each once
TurnOrderIsAlive(c) ==
    rooms[c].phase \in {"discussion", "voting"}
        => IsOrderOf(rooms[c].turnOrder, Alive(rooms[c]))

\* a step that is not a start-game only takes entries out of the turn order
\* of room c
OnlyPruned(c) ==
    (rooms'[c] # NoRoom /\ ~GameStarts(c))
        => IsPruningOf(rooms'[c].turnOrder, rooms[c].turnOrder)

(* C23: from a start-game on the turn order is only ever pruned: every      *)
(* later step leaves an order-preserving subsequence of it, so it stays a   *)
(* subsequence of the turn order of the start; and whenever the phase is    *)
(* discussion or voting it holds exactly the non-eliminated players.        *)
C23_TurnOrderPruned ==
    /\ [](\A c \in Rooms : TurnOrderIsAlive(c))
    /\ [][\A c \in Rooms : OnlyPruned(c)]_vars

\* a later round of a game whose turn order was shuffled at the start and
\* has lost the eliminated player since
C23_Witness ==
    \E c \in Rooms :
        /\ rooms[c].phase = "discussion"
        /\ Eliminated(rooms[c]) # {}
        /\ Len(rooms[c].turnOrder) >= 2
        /\ \E i \in DOMAIN rooms[c].turnOrder :
              i > 1 /\ rooms[c].turnOrder[i] < rooms[c].turnOrder[i - 1]

----------------------------------------------------------------------------
(* The guess timer *)

\* the guess timer of room c is outstanding
Outstanding(room) == room.guessTimeout = "armed"

\* a step arms the timer of room c only when none is outstanding, and only
\* as the tally that sets the pending flag
ArmedByTally(c) ==
    (rooms'[c] # NoRoom /\ Outstanding(rooms'[c]) /\ ~Outstanding(rooms[c]))
        => /\ rooms[c].guessTimeout = "null"
           /\ rooms[c].phase = "voting"
           /\ ~rooms[c].pendingImpostorGuess
           /\ rooms'[c].pendingImpostorGuess

\* no tally can run, and arm a second timer, while one is outstanding
NoSecondTimer(c) == Outstanding(rooms[c]) => rooms[c].phase = "results"

\* a step that clears the pending flag of room c leaves no timer outstanding
ClearedWithFlag(c) ==
    (rooms'[c] # NoRoom /\ rooms[c].pendingImpostorGuess
     /\ ~rooms'[c].pendingImpostorGuess)
        => /\ ~Outstanding(rooms'[c])
           /\ rooms'[c].guessTimeout = "null"

(* C24: a room has at most one outstanding guess timer, and one is          *)
(* outstanding exactly while the pending flag of the room is set: the timer *)
(* is armed only by the tally that sets the flag, never over another, and   *)
(* every step that clears the flag cancels it.                              *)
C24_GuessTimer ==
    /\ [](\A c \in Rooms :
             /\ Outstanding(rooms[c]) <=> rooms[c].pendingImpostorGuess
             /\ NoSecondTimer(c))
    /\ [][\A c \in Rooms : ArmedByTally(c) /\ ClearedWithFlag(c)]_vars

\* a game that is over after its last impostor was eliminated: the flag is
\* cleared and no timer is left
C24_Witness ==
    \E c \in Rooms :
        /\ rooms[c].phase = "ended"
        /\ rooms[c].guessTimeout = "null"
        /\ ~rooms[c].pendingImpostorGuess
        /\ AliveOfRole(rooms[c], "impostor") = {}
        /\ Eliminated(rooms[c]) # {}

----------------------------------------------------------------------------
(* The next round *)

\* the win conditions are met among the non-eliminated players of the room
IsDecided(room) ==
    \/ AliveOfRole(room, "impostor") = {}
    \/ Cardinality(AliveOfRole(room, "impostor"))
           >= Cardinality(AliveOfRole(room, "crew"))

\* the result G of the host's next-round request on connection s in room c,
\* which is in phase results
NextRoundOK(G, c, s) ==
    IF IsDecided(rooms[c])
    THEN Refused(G, s)
    ELSE /\ G.rooms[c] =
               [rooms[c] EXCEPT
                   !.votes = noVotes,
                   !.phase = "discussion",
                   !.lastActivity = now,
                   !.turnOrder = SelectSeq(@, LAMBDA p : p \in Alive(rooms[c]))]
         /\ \A d \in CodePool \ {c} : G.rooms[d] = rooms[d]

(* C25: a next-round request of the host in phase results fails and leaves  *)
(* the room unchanged whenever the win conditions are met among the         *)
(* non-eliminated players, which is so in every state with a pending guess; *)
(* otherwise it empties the ballots, takes the eliminated players out of    *)
(* the turn order and sets the phase to discussion.                         *)
C25_NextRound ==
    \A c \in Rooms :
        /\ Pending(c) => IsDecided(rooms[c])
        /\ rooms[c].phase = "results"
              => \A s \in ConnectionsOf(c) :
                    canSend(s) /\ socks[s].playerId = rooms[c].hostId
                        => NextRoundOK(requestNextRound(Here, s), c, s)

\* results that leave the game open, with a player eliminated and ballots in
\* the map, and the host connected
C25_Witness ==
    \E c \in Rooms : \E s \in ConnectionsOf(c) :
        /\ canSend(s)
        /\ socks[s].playerId = rooms[c].hostId
        /\ rooms[c].phase = "results"
        /\ ~IsDecided(rooms[c])
        /\ Eliminated(rooms[c]) # {}
        /\ Voters(rooms[c]) # {}

----------------------------------------------------------------------------
(* How a game ends *)

\* the step takes room c into phase ended
GameEnds(c) ==
    /\ rooms[c].phase # "ended"
    /\ rooms'[c] # NoRoom
    /\ rooms'[c].phase = "ended"

\* the step is a tally of the ballots of room c
ByTally(c) ==
    /\ rooms[c].phase = "voting"
    /\ \/ rooms'[c] = tallyVotes(Here, c).rooms[c]
       \/ \E s \in ConnectionsOf(c), t \in Ids :
             rooms'[c] = submitVote(Here, s, t).rooms[c]

\* the step resolves the pending guess of room c
ByGuessResolution(c) ==
    /\ rooms[c].phase = "results"
    /\ rooms[c].pendingImpostorGuess
    /\ ~rooms'[c].pendingImpostorGuess

\* the step is a kick by the host in the middle of a game with no guess
\* pending
ByMidGameKick(c) ==
    /\ IsActive(rooms[c])
    /\ ~rooms[c].pendingImpostorGuess
    /\ ByKick(c)

(* C26 as stated: every step that takes a room into phase ended is a vote   *)
(* tally or a guess resolution, and none is the effect of a host request.   *)
C26_AsStated ==
    [][\A c \in Rooms : GameEnds(c) => ByTally(c) \/ ByGuessResolution(c)]_vars

(* C26: every step that takes a room into phase ended is a vote tally, a    *)
(* guess resolution, or a kick by the host in discussion, voting or results *)
(* with no guess pending, whose win conditions the kick has met.            *)
C26_EndedEntry ==
    [][\A c \in Rooms :
          GameEnds(c) => ByTally(c) \/ ByGuessResolution(c) \/ ByMidGameKick(c)]_vars

\* a game that a kick ended: nobody was voted out and a player is gone
C26_Witness ==
    \E c \in Rooms :
        /\ rooms[c].phase = "ended"
        /\ Eliminated(rooms[c]) = {}
        /\ Len(rooms[c].players) < MAX_PLAYERS_PER_ROOM - 1
        /\ rooms[c].started

----------------------------------------------------------------------------
(* The ballots of a voting phase *)

\* the step opens the voting phase of room c
VotingOpens(c) ==
    /\ rooms[c].phase # "voting"
    /\ rooms'[c] # NoRoom
    /\ rooms'[c].phase = "voting"

\* the step opens the next round of room c
RoundOpens(c) ==
    /\ rooms[c].phase = "results"
    /\ rooms'[c] # NoRoom
    /\ rooms'[c].phase = "discussion"

BallotsCleared(c) == VotingOpens(c) \/ RoundOpens(c) => rooms'[c].votes = noVotes

\* the room with the voter's ballot replaced by a ballot for t
Recast(room, voter, t) ==
    [room EXCEPT !.votes = [v \in Ids |-> IF v = voter THEN t ELSE room.votes[v]]]

\* a ballot of a non-eliminated voter for a non-eliminated member takes the
\* place of the voter's earlier one, and a tally it completes counts it
LatestBallotOK(c, s, t) ==
    LET before == rooms[c]
        voter == socks[s].playerId
        cast == Recast(before, voter, t)
        after == submitVote(Here, s, t).rooms[c]
        gone == NewlyEliminated(before, after)
    IN  voter \in Alive(before) /\ t \in Alive(before)
            => IF after.phase = "voting"
               THEN after.votes = cast.votes
               ELSE /\ gone \subseteq TopVoted(cast)
                    /\ (gone # {}) <=> (Cardinality(TopVoted(cast)) = 1)

(* C27: the ballot map is empty when a voting phase starts (start-voting    *)
(* and next-round clear it); it holds one ballot per voter at most, and a   *)
(* non-eliminated voter's later ballot in the same voting phase replaces    *)
(* the earlier one, so that a tally counts the latest ballot only.          *)
C27_Ballots ==
    /\ [](\A c \in Rooms :
            rooms[c].phase = "voting"
                => \A s \in ConnectionsOf(c), t \in Ids : LatestBallotOK(c, s, t))
    /\ [][\A c \in Rooms : BallotsCleared(c)]_vars

\* a voter who has voted votes again for somebody else, and this ballot
\* completes the tally
C27_Witness ==
    \E c \in Rooms :
        /\ rooms[c].phase = "voting"
        /\ \E s \in ConnectionsOf(c), t \in Alive(rooms[c]) :
              /\ socks[s].playerId \in Alive(rooms[c])
              /\ rooms[c].votes[socks[s].playerId] \notin {NoId, t}
              /\ submitVote(Here, s, t).rooms[c].phase # "voting"
              /\ NewlyEliminated(rooms[c], submitVote(Here, s, t).rooms[c]) = {t}

----------------------------------------------------------------------------
(* Kicks and the win conditions *)

\* what the result G of a kick shows for room c: the winner that the counts
\* of the non-eliminated left in the room require, and the phase ended
KickDeclares(G, c) ==
    LET room == G.rooms[c]
        imp == Cardinality(AliveOfRole(room, "impostor"))
        crew == Cardinality(AliveOfRole(room, "crew"))
    IN  /\ imp = 0 => Winners(G, c) = {"crew"} /\ room.phase = "ended"
        /\ imp > 0 /\ imp >= crew
              => Winners(G, c) = {"impostor"} /\ room.phase = "ended"

\* a kick in lobby or ended leaves the phase alone
KickKeepsPhase(c) ==
    rooms[c].phase \in {"lobby", "ended"}
        => \A s \in Sockets, t \in Ids :
              socks[s].st = "open"
                  => kickPlayer(Here, s, t).rooms[c].phase = rooms[c].phase

(* C28 as stated: every kick by the host during discussion, voting or       *)
(* results evaluates the win conditions on the non-eliminated players left, *)
(* declares the crew when no impostor is left and the impostors when they   *)
(* are at least as many as the crew, and sets the phase to ended; a kick in *)
(* lobby or ended never changes the phase.                                  *)
C28_AsStated ==
    \A c \in Rooms :
        /\ \A s \in Sockets, t \in Ids :
              IsMidGameKick(c, s, t) => KickDeclares(kickPlayer(Here, s, t), c)
        /\ KickKeepsPhase(c)

(* C28: the same for the kicks taken while no last-chance guess is pending; *)
(* a kick during results with a guess pending declares nobody and leaves    *)
(* the phase at results.                                                    *)
C28_KickEvaluates ==
    \A c \in Rooms :
        /\ \A s \in Sockets, t \in Ids :
              IsMidGameKick(c, s, t)
                  => IF rooms[c].pendingImpostorGuess
                     THEN /\ Winners(kickPlayer(Here, s, t), c) = {}
                          /\ kickPlayer(Here, s, t).rooms[c].phase = "results"
                     ELSE KickDeclares(kickPlayer(Here, s, t), c)
        /\ KickKeepsPhase(c)

\* the host kicks the last impostor in mid-game and the crew wins
C28_Witness ==
    \E c \in Rooms : \E s \in Sockets, t \in Ids :
        /\ IsMidGameKick(c, s, t)
        /\ ~rooms[c].pendingImpostorGuess
        /\ rooms[c].roles[t] = "impostor"
        /\ Winners(kickPlayer(Here, s, t), c) = {"crew"}
        /\ kickPlayer(Here, s, t).rooms[c].phase = "ended"

----------------------------------------------------------------------------
(* Starting a game *)

\* the words of the active word source of a room, none without a valid one
ActiveWords(room) ==
    IF room.mode = "preset"
    THEN IF room.selectedCategory \in CategoryNames
         THEN {categories[room.selectedCategory][i] :
                  i \in DOMAIN categories[room.selectedCategory]}
         ELSE {}
    ELSE IF Len(room.customWords) >= MIN_CUSTOM_WORDS
         THEN {room.customWords[i] : i \in DOMAIN room.customWords}
         ELSE {}

\* the room can be started
ReadyRoom(room) ==
    /\ room.phase = "lobby"
    /\ Cardinality(Members(room)) >= 2
    /\ 1 <= room.impostorCount
    /\ room.impostorCount < Cardinality(Members(room))
    /\ ActiveWords(room) # {}

\* what startGame on connection s does to room c, whatever it draws
StartOK(c, s) ==
    \A wordPick \in wordPicks(s), roleShuffle \in shuffles(s),
       turnShuffle \in shuffles(s) :
        LET G == startGame(Here, s, wordPick, roleShuffle, turnShuffle)
            after == G.rooms[c]
        IN  IF ReadyRoom(rooms[c]) /\ socks[s].playerId = rooms[c].hostId
            THEN /\ after.phase = "discussion"
                 /\ Eliminated(after) = {}
                 /\ Members(after) = Members(rooms[c])
                 /\ after.secretWord \in ActiveWords(rooms[c])
                 /\ ~after.pendingImpostorGuess
                 /\ after.eliminatedImpostorId = NoId
                 /\ after.guessTimeout # "armed"
            ELSE G.rooms = rooms

(* C29: start-game moves a room from lobby to discussion only at the host's *)
(* request with at least 2 players, 1 <= impostorCount < playerCount and a  *)
(* valid word source (a selected category in preset mode, the minimum       *)
(* number of custom words in custom mode); on success no player is flagged  *)
(* eliminated, the secret word is one of the active word list and no guess  *)
(* is pending; on a failed precondition the rooms are as they were.         *)
C29_StartGame ==
    /\ [](\A c \in Rooms : \A s \in ConnectionsOf(c) : StartOK(c, s))
    /\ [][\A c \in Rooms :
             rooms[c].phase = "lobby" /\ rooms'[c] # NoRoom
                 /\ rooms'[c].phase = "discussion"
                 => ReadyRoom(rooms[c])]_vars

\* a game started from custom words with two impostors
C29_Witness ==
    \E c \in Rooms :
        /\ rooms[c].phase = "discussion"
        /\ rooms[c].mode = "custom"
        /\ rooms[c].impostorCount = 2
        /\ rooms[c].secretWord \in ActiveWords(rooms[c])
        /\ Len(rooms[c].players) = MAX_PLAYERS_PER_ROOM - 1

----------------------------------------------------------------------------
(* The rooms a request changes *)

\* the codes under which a step changes, makes or removes a room
Changed == {c \in CodePool : rooms'[c] # rooms[c]}

\* connection s is bound to room c when the step is over
BoundAfter(s, c) == socks'[s].roomCode = c

\* the step closes the previous connection of the identity of s, which was
\* bound to room c, and room c is as the disconnect of that connection leaves it
SupersededIn(s, c) ==
    LET old == playerSockets[socks'[s].playerId]
    IN  /\ socks'[s].playerId # NoId
        /\ old # s
        /\ isLive(Here, old)
        /\ socks[old].roomCode = c
        /\ socks'[old].st = "closed"
        /\ rooms'[c] = onDisconnect(Here, old).rooms[c]

----------------------------------------------------------------------------
(* The last activity of a room *)

\* the step changes room c and leaves it in being
Mutated(c) == rooms'[c] # rooms[c] /\ rooms'[c] # NoRoom

(* C31: every step that changes the state of a room (a join, a change of    *)
(* the settings, a start, a ballot, a tally, a next round, a kick, a guess  *)
(* resolution, a reset, the removal of a player whose connection closes in  *)
(* the lobby) sets the last activity of the room to the current time.       *)
C31_MutationsTouch ==
    [][\A c \in CodePool : Mutated(c) => rooms'[c].lastActivity = now]_vars

----------------------------------------------------------------------------
(* The generation of room codes *)

\* generateCode on the draws given: it stops within the bound on the draws,
\* and what it returns is a code no room has, or null with every draw within
\* the bound taken by a room
GenerateOK(draws) ==
    LET code == generateCode(Here, draws)
        attempts == generateCodeLoop(Here, draws, 0).attempts
    IN  /\ attempts <= MaxAttempts + 1
        /\ code # NoCode => code \in CodePool /\ rooms[code] = NoRoom
        /\ code = NoCode
              => /\ attempts > MaxAttempts
                 /\ \A i \in 1..MaxAttempts : rooms[draws[i]] # NoRoom

\* createSession after generateCode has failed: no room is made, no identity
\* is bound, and the failure is reported
CreateFailsClean(s) ==
    \A pid \in sentId(s), name \in JoinNames :
        \A atOnce \in closings(pid) :
            LET G == createSession(Here, s, pid, name, NoCode, atOnce)
            IN  /\ G.rooms = rooms
                /\ G.ps = playerSockets
                /\ G.socks = socks
                /\ Sent(G, "joinError") # {}

(* C32: the generation of a room code ends after a bounded number of draws; *)
(* it returns a code that no room has, or fails once the bound on the       *)
(* attempts is passed; after a failure create-session makes no room and     *)
(* binds no identity.                                                       *)
C32_CodeGeneration ==
    /\ \A draws \in DrawSeqs : GenerateOK(draws)
    /\ generateCodeResults = {generateCode(Here, draws) : draws \in DrawSeqs}
    /\ \A s \in Sockets : canSend(s) => CreateFailsClean(s)

\* two rooms, made under codes generateCode returned, with draws that fail
\* and draws that hit a room before they find the free code
C32_Witness ==
    /\ Cardinality(Rooms) = MAX_ROOMS
    /\ \E draws \in DrawSeqs : generateCode(Here, draws) = NoCode
    /\ \E draws \in DrawSeqs :
          /\ rooms[draws[1]] # NoRoom
          /\ generateCode(Here, draws) # NoCode
    /\ \E s \in Sockets : canSend(s) /\ atHome(s)

----------------------------------------------------------------------------
(* The room while a guess is pending *)

\* the recorded guesser of the room is a member, eliminated, and an impostor
GuesserInRoom(room) ==
    /\ room.eliminatedImpostorId \in Members(room)
    /\ room.eliminatedImpostorId \in Eliminated(room)
    /\ room.roles[room.eliminatedImpostorId] = "impostor"

(* C33: whenever the pending-guess flag of a room is set, the phase is      *)
(* results, the room has no non-eliminated impostor, and the recorded       *)
(* guesser is a member of the room who is eliminated and an impostor.       *)
C33_PendingGuessState ==
    \A c \in Rooms :
        rooms[c].pendingImpostorGuess
            => /\ rooms[c].phase = "results"
               /\ AliveOfRole(rooms[c], "impostor") = {}
               /\ GuesserInRoom(rooms[c])

----------------------------------------------------------------------------
(* The disconnect of a superseded connection *)

\* connection s has been told to close by a handler that bound its identity
\* to a newer connection, and has not closed yet
Superseded(s) ==
    /\ socks[s].st = "closing"
    /\ socks[s].playerId # NoId
    /\ playerSockets[socks[s].playerId] # s

\* a reconnect that succeeds leaves the identity a member of a room in being
ReconnectKeepsMember(s) ==
    \A pid \in sentId(s), rawCode \in CodeInputs :
        \A atOnce \in closings(pid) :
            LET G == reconnect(Here, s, pid, rawCode, atOnce)
                c == toUpperCase(rawCode)
            IN  Sent(G, "reconnectSuccess") # {}
                    => /\ G.rooms[c] # NoRoom
                       /\ pid \in Members(G.rooms[c])

(* C34: the disconnect of a connection that has been superseded changes no  *)
(* room: it neither resolves a pending guess nor removes the player from a  *)
(* lobby, so that after a successful reconnect the identity is still a      *)
(* member and the room is still there.                                      *)
C34_SupersededDisconnect ==
    /\ \A s \in Sockets : Superseded(s) => onDisconnect(Here, s).rooms = rooms
    /\ \A s \in Sockets : canSend(s) => ReconnectKeepsMember(s)

----------------------------------------------------------------------------
(* The connection of a kicked player *)

\* connection s still carries room c and an identity that the host has
\* removed from the room
KickedOut(s, c) ==
    /\ isLive(Here, s)
    /\ socks[s].roomCode = c
    /\ socks[s].playerId # NoId
    /\ socks[s].playerId \notin Members(rooms[c])

\* the kicked player's guess, disconnect and ballot leave the rooms alone
KickedResolvesNothing(s) ==
    /\ \A guess \in GuessInputs : submitWordGuess(Here, s, guess).rooms = rooms
    /\ onDisconnect(Here, s).rooms = rooms
    /\ \A t \in Ids \cup {NoId} : submitVote(Here, s, t).rooms = rooms

\* the requests of the game, sent on the kicked player's connection, leave the
\* rooms alone
KickedRequestsNothing(s) ==
    /\ requestStartVoting(Here, s).rooms = rooms
    /\ requestEndVoting(Here, s).rooms = rooms
    /\ requestNextRound(Here, s).rooms = rooms
    /\ \A t \in Ids \cup {NoId} : kickPlayer(Here, s, t).rooms = rooms
    /\ \A dataCode \in CodeInputs, dataId \in sentId(s) :
          requestPlayAgain(Here, s, dataCode, dataId).rooms = rooms

(* C35: after a player has been kicked, no request and no disconnect of the *)
(* kicked player's connection changes the room: the kicked player cannot    *)
(* resolve a pending guess, by a word or by disconnecting, and cannot vote. *)
C35_KickedIsOut ==
    \A c \in Rooms : \A s \in Sockets :
        KickedOut(s, c) => KickedResolvesNothing(s) /\ KickedRequestsNothing(s)

----------------------------------------------------------------------------
(* Games left running *)

\* the room is in a phase in which the players talk or vote
Running(room) == room.phase \in {"discussion", "voting"}

\* a win condition holds among the non-eliminated players of the room
WinConditionHolds(room) ==
    \/ AliveOfRole(room, "impostor") = {}
    \/ Cardinality(AliveOfRole(room, "impostor"))
           >= Cardinality(AliveOfRole(room, "crew"))

(* C36 as stated: whenever a room is in discussion or voting it has a       *)
(* non-eliminated impostor and fewer non-eliminated impostors than crew,    *)
(* right after start-game included.                                         *)
C36_AsStated ==
    \A c \in Rooms : Running(rooms[c]) => ~WinConditionHolds(rooms[c])

\* a step that leaves room c running with a win condition met is start-game,
\* or a step of the round start-game opened that removes and eliminates nobody
MetOnlyFromStart(c) ==
    (rooms'[c] # NoRoom /\ Running(rooms'[c]) /\ WinConditionHolds(rooms'[c]))
        => \/ rooms[c].phase = "lobby"
           \/ /\ Running(rooms[c])
              /\ WinConditionHolds(rooms[c])
              /\ Members(rooms'[c]) = Members(rooms[c])
              /\ Eliminated(rooms'[c]) = {}
              /\ Eliminated(rooms[c]) = {}

(* C36: whenever a room is in discussion or voting it has a non-eliminated  *)
(* impostor; its non-eliminated impostors are fewer than its crew unless    *)
(* start-game dealt the roles that way, and then only until the first       *)
(* tally or kick: no tally, kick or next round leaves a game running with a *)
(* win condition met.                                                       *)
C36_NotLeftRunning ==
    /\ [](\A c \in Rooms :
            Running(rooms[c]) => AliveOfRole(rooms[c], "impostor") # {})
    /\ [][\A c \in Rooms : MetOnlyFromStart(c)]_vars

\* a vote under way in a game that started with as many impostors as crew,
\* and a game in its second round
C36_Witness ==
    \E c \in Rooms :
        /\ rooms[c].phase = "voting"
        /\ WinConditionHolds(rooms[c])
        /\ Voters(rooms[c]) # {}

----------------------------------------------------------------------------
(* The host flag *)

\* the host flag of every player of the room says whether the player is the
\* host the room records
HostFlagsAgree(room) ==
    \A i \in DOMAIN room.players :
        room.players[i].isHost <=> (room.players[i].id = room.hostId)

(* C37: in every room a player's host flag is true exactly when the player  *)
(* is the identity the room records as its host, after any creates, joins,  *)
(* lobby disconnects, re-joins, kicks and resets; and the host identity of  *)
(* a room never changes: every step leaves every room so.                   *)
C37_HostFlag ==
    [][\A c \in CodePool :
          rooms'[c] # NoRoom
              => /\ HostFlagsAgree(rooms'[c])
                 /\ rooms[c] # NoRoom => rooms'[c].hostId = rooms[c].hostId]_vars

----------------------------------------------------------------------------
(* The rooms of an identity *)

\* the rooms that have identity p in their player list
RoomsOf(p) == {c \in Rooms : p \in Members(rooms[c])}

(* C38: an identity is a member of one room at most: no create-session,     *)
(* join-session or reconnect leaves an identity in the player lists of two  *)
(* rooms.                                                                   *)
C38_OneRoomPerIdentity ==
    \A p \in Ids : Cardinality(RoomsOf(p)) <= 1

----------------------------------------------------------------------------
(* The end of a game *)

\* P holds of the result of every handler on every connection and input, and
\* of the guess timer of every room
EveryResult(P(_)) ==
    /\ \A s \in Sockets :
          /\ isLive(Here, s) => P(onDisconnect(Here, s))
          /\ canSend(s)
                => /\ P(requestStartVoting(Here, s))
                   /\ P(requestEndVoting(Here, s))
                   /\ P(requestNextRound(Here, s))
                   /\ \A t \in Ids \cup {NoId} :
                         P(kickPlayer(Here, s, t)) /\ P(submitVote(Here, s, t))
                   /\ \A guess \in GuessInputs : P(submitWordGuess(Here, s, guess))
                   /\ \A dataCode \in CodeInputs, dataId \in sentId(s) :
                         P(requestPlayAgain(Here, s, dataCode, dataId))
                   /\ \A pid \in sentId(s), rawCode \in CodeInputs :
                         \A atOnce \in closings(pid) :
                            P(reconnect(Here, s, pid, rawCode, atOnce))
    /\ \A c \in Rooms :
          rooms[c].guessTimeout = "armed" => P(guessTimeoutFires(Here, c))

\* the result G declares a winner for a room once at most, only as it takes
\* the room into phase ended, and never for a room that has ended
EndsOnce(G) ==
    \A c \in Rooms :
        /\ EndedCount(G, c) <= 1
        /\ EndedCount(G, c) = 1
              => rooms[c].phase # "ended" /\ G.rooms[c].phase = "ended"
        /\ rooms[c].phase = "ended" => EndedCount(G, c) = 0

\* a step leaves a room that has ended as it is, but for a reset to the lobby
\* and the removal of the room
EndedStays(c) ==
    rooms[c].phase = "ended"
        => \/ rooms'[c] = NoRoom
           \/ rooms'[c].phase = "ended"
           \/ /\ rooms'[c].phase = "lobby"
              /\ rooms'[c] = resetRoomForPlayAgain(Here, c).rooms[c]

(* C39: from a start-game to the next return to the lobby one game-ended    *)
(* notification at most is sent for the room; a room in phase ended stays   *)
(* ended and no other winner is declared for it, whatever ballot, kick,     *)
(* guess, timer, disconnect or reconnect comes, until play-again resets it  *)
(* or the room is removed.                                                  *)
C39_EndedOnce ==
    /\ [](EveryResult(EndsOnce))
    /\ [][\A c \in Rooms : EndedStays(c)]_vars

\* a game that has ended, with the former guesser still connected and a
\* second connection of a player open
C39_Witness ==
    \E c \in Rooms :
        /\ rooms[c].phase = "ended"
        /\ rooms[c].guessTimeout # "armed"
        /\ \E s \in ConnectionsOf(c) :
              /\ socks[s].playerId \in Eliminated(rooms[c])
              /\ rooms[c].roles[socks[s].playerId] = "impostor"
        /\ \E s, t \in ConnectionsOf(c) : s # t /\ socks[s].playerId = socks[t].playerId

----------------------------------------------------------------------------
(* The lobby *)

\* the room carries nothing of a game
CleanRoom(room) ==
    /\ room.roles = noRoles
    /\ room.votes = noVotes
    /\ room.secretWord = NoWord
    /\ Eliminated(room) = {}
    /\ ~room.pendingImpostorGuess
    /\ room.eliminatedImpostorId = NoId
    /\ ~Outstanding(room)

(* C40: whenever a room is in the lobby its game state is clean: no roles,  *)
(* no ballots, no secret word, no player flagged eliminated, no guess       *)
(* pending, no guesser recorded and no guess timer outstanding.             *)
C40_LobbyIsClean ==
    \A c \in Rooms : rooms[c].phase = "lobby" => CleanRoom(rooms[c])

\* a room back in the lobby after a game: it has the turn order of that game
C40_Witness ==
    \E c \in Rooms :
        /\ rooms[c].phase = "lobby"
        /\ rooms[c].hasTurnOrder
        /\ rooms[c].turnOrder # <<>>
        /\ ~rooms[c].started

====
